---- MODULE Spec2Model ----
(***************************************************************************)
(* A model of the fn_cache memoization core: a sparse container            *)
(* (HashMap behind the Cache / SparseContainer traits), the cache          *)
(* GenericCache that owns it together with the rule, and the handle        *)
(* RefCache through which the rule calls back into the same container.     *)
(*                                                                         *)
(* The Rust call stack is explicit: `stack` is a sequence of frames, the   *)
(* last one being the innermost call.  One action is one step of get,      *)
(* get_many or of the rule; remove and clear are single steps.             *)
(***************************************************************************)
EXTENDS Integers, Sequences, FiniteSets, TLC

\* Keys have ids 0..MaxKey.
MaxKey == 3

\* get_many is called at the top level with arrays of 0..MaxMany keys.
MaxMany == 2

\* The call stack holds MaxDepth frames; one more exhausts it.
MaxDepth == 9

\* The threads that share a cache behind a mutex are 1..NumThreads.
NumThreads == 2

\* reserve is called with 0..MaxAdditional.
MaxAdditional == 2

(***************************************************************************)
(* Keys.  A key is a value of the type C::Input; the container compares    *)
(* keys with Eq (and Hash), so two keys that differ in a part Eq ignores   *)
(* are one key to the container and two different arguments to the rule.   *)
(* id is the part Eq compares, tag the part it ignores.                    *)
(***************************************************************************)
KeyRepr == [id : 0..MaxKey, tag : 0..1]

Key(n, t) == [id |-> n, tag |-> t]

KeyEq(a, b) == a.id = b.id

(***************************************************************************)
(* The container: a set of entries [key, val], at most one per Eq class.   *)
(***************************************************************************)
Entry(k, v) == [key |-> k, val |-> v]

\* A has that finds nothing.
HasNever(c, k) == FALSE

\* HashMap::contains_key
Has(c, k) == \E e \in c : KeyEq(e.key, k)

\* A get that finds only the entry whose key is spelled as asked.
ContainerGetExact(c, k) ==
  LET vs == {e.val : e \in {x \in c : x.key = k}}
  IN IF vs = {} THEN <<>> ELSE <<CHOOSE v \in vs : TRUE>>

\* HashMap::get: the Option it returns, <<>> for None and <<v>> for Some(v).
ContainerGet(c, k) ==
  LET vs == {e.val : e \in {x \in c : KeyEq(x.key, k)}}
  IN IF vs = {} THEN <<>> ELSE <<CHOOSE v \in vs : TRUE>>

\* A lookup that takes an entry without comparing its key.
LookupFirst(c, k) == IF c # {} THEN (CHOOSE e \in c : TRUE).val ELSE 0 - 1

\* HashMap::get (...).unwrap(): the value stored under k; 0 - 1 when absent
\* never escapes, every use is guarded by Has.
Lookup(c, k) == IF Has(c, k) THEN (CHOOSE e \in c : KeyEq(e.key, k)).val ELSE 0 - 1

\* A put that inserts nothing.
PutNothing(c, k, v) == c

\* A put that replaces the stored entry (insert instead of or_insert).
PutOverwrite(c, k, v) == {e \in c : ~KeyEq(e.key, k)} \cup {Entry(k, v)}

\* HashMap::entry(input).or_insert(output): the container afterwards.
Put(c, k, v) == IF Has(c, k) THEN c ELSE c \cup {Entry(k, v)}

\* A put that hands back the value it was passed.
PutRefFresh(c, k, v) == v

\* The reference put returns: into the entry, occupied before or just filled.
PutRef(c, k, v) == Lookup(Put(c, k, v), k)

\* A len that counts one entry too many.
ContainerLenOneMore(c) == Cardinality(c) + 1

\* HashMap::len
ContainerLen(c) == Cardinality(c)

\* A clear that leaves the container as it is.
ClearedNothing(c) == c

\* HashMap::clear: the container afterwards.
Cleared(c) == {}

\* HashMap::remove: the container afterwards, and the Option it returns
\* (a sequence of zero or one value).
\* A remove that takes away the entry only when its key is spelled as k is.
RemoveExact(c, k) == {e \in c : e.key # k}

RemoveFrom(c, k) == {e \in c : ~KeyEq(e.key, k)}

Removed(c, k) == IF Has(c, k) THEN <<Lookup(c, k)>> ELSE <<>>

(***************************************************************************)
(* Rules.  A rule is run as a list of requests it makes through the handle *)
(* (get of one key, or get_many of an array) followed by the output it     *)
(* computes from the values the requests returned.                         *)
(***************************************************************************)
RECURSIVE SumSeq(_)
SumSeq(s) == IF s = <<>> THEN 0 ELSE Head(s) + SumSeq(Tail(s))

RECURSIVE Flatten(_)
Flatten(ss) == IF ss = <<>> THEN <<>> ELSE Head(ss) \o Flatten(Tail(ss))

ReqGet(k) == [many |-> FALSE, keys |-> <<k>>]

ReqMany(ks) == [many |-> TRUE, keys |-> ks]

\* A wrapped rule that asks its handle for the key below.
squareRequestsBelow(k) == IF k.id = 0 THEN <<>> ELSE <<[many |-> FALSE, keys |-> <<[id |-> k.id - 1, tag |-> k.tag]>>]>>

\* square: x * x, no request.
squareRequests(k) == <<>>

squareOutput(k, acc) == k.id * k.id

\* fib: 0 => 0, 1 => 1, _ => *cache.get(x - 1) + *cache.get(x - 2)
fibRequests(k) ==
  IF k.id < 2 THEN <<>>
  ELSE <<ReqGet(Key(k.id - 1, k.tag)), ReqGet(Key(k.id - 2, k.tag))>>

fibOutput(k, acc) == IF k.id < 2 THEN k.id ELSE SumSeq(Flatten(acc))

\* 0 => 1, 1 => 1, _ => cache.get_many([x - 1, x - 2]).into_iter().sum()
fibManyRequests(k) ==
  IF k.id < 2 THEN <<>>
  ELSE <<ReqMany(<<Key(k.id - 1, k.tag), Key(k.id - 2, k.tag)>>)>>

fibManyOutput(k, acc) == IF k.id < 2 THEN 1 ELSE SumSeq(Flatten(acc))

\* A rule over keys with an ignored part: the plain key (tag 0) is computed
\* as fib; the other spelling of the key (tag 1) asks the handle for the
\* plain key and adds 100 to what it gets.
aliasRequests(k) ==
  IF k.tag = 1 THEN <<ReqGet(Key(k.id, 0))>> ELSE fibRequests(k)

aliasOutput(k, acc) ==
  IF k.tag = 1 THEN SumSeq(Flatten(acc)) + 100 ELSE fibOutput(k, acc)

\* A request of the rule to remove a key: only a rule that is handed the
\* cache itself (HashCache, VecCache, BTreeCache) can make it.
ReqRemove(k) == [many |-> FALSE, keys |-> <<k>>, remove |-> TRUE]

IsRemove(rq) == "remove" \in DOMAIN rq

\* A Fibonacci rule that drops the older of the two values it has used:
\* 0 => 0, 1 => 1, _ => { let v = *cache.get(x - 1) + *cache.get(x - 2);
\*                         cache.remove(&(x - 2)); v }
fibForgetRequests(k) ==
  IF k.id < 2 THEN <<>>
  ELSE <<ReqGet(Key(k.id - 1, k.tag)), ReqGet(Key(k.id - 2, k.tag)),
         ReqRemove(Key(k.id - 2, k.tag))>>

fibForgetOutput(k, acc) == IF k.id < 2 THEN k.id ELSE acc[1][1] + acc[2][1]

\* A Fibonacci rule with no value for 0:
\* 0 => panic!(), 1 => 1, _ => *cache.get(x - 1) + *cache.get(x - 2)
fibNoZeroRequests(k) == IF k.id < 2 THEN <<>> ELSE fibRequests(k)

fibNoZeroOutput(k, acc) == fibOutput(k, acc)

\* A Fibonacci rule that refuses the inputs above 2:
\* 0 => 0, 1 => 1, _ => { assert!(*x <= 2); *cache.get(x - 1) + *cache.get(x - 2) }
fibBoundedRequests(k) == IF k.id > 2 THEN <<>> ELSE fibRequests(k)

fibBoundedOutput(k, acc) == fibOutput(k, acc)

\* The rule r panics when it is invoked for key k.
Faults(r, k) ==
  CASE r = "fibNoZero" -> k.id = 0
    [] r = "fibBounded" -> k.id > 2
    [] OTHER -> FALSE

\* A rule whose keys 1 and 2 need each other:
\* 0 => 0, _ => *cache.get(0) + *cache.get(x % 2 + 1)
cyclicRequests(k) ==
  IF k.id = 0 THEN <<>>
  ELSE <<ReqGet(Key(0, k.tag)), ReqGet(Key((k.id % 2) + 1, k.tag))>>

cyclicOutput(k, acc) == SumSeq(Flatten(acc))

\* A rule whose index 1 needs the index above it, which needs nothing:
\* 1 => *cache.get(2) + 1, x => x
aheadRequests(k) == IF k.id = 1 THEN <<ReqGet(Key(2, k.tag))>> ELSE <<>>

aheadOutput(k, acc) == IF k.id = 1 THEN SumSeq(Flatten(acc)) + 1 ELSE k.id

\* The rules of the tests and the documentation.
Rules == {"square", "fib", "fibMany"}

\* The keys a cache with rule r is called with.
Keys(r) == IF r = "alias" THEN KeyRepr ELSE {k \in KeyRepr : k.tag = 0}

Requests(r, k) ==
  CASE r = "square" -> squareRequests(k)
    [] r = "fib" -> fibRequests(k)
    [] r = "fibMany" -> fibManyRequests(k)
    [] r = "alias" -> aliasRequests(k)
    [] r = "fibForget" -> fibForgetRequests(k)
    [] r = "cyclic" -> cyclicRequests(k)
    [] r = "ahead" -> aheadRequests(k)
    [] r = "fibNoZero" -> fibNoZeroRequests(k)
    [] r = "fibBounded" -> fibBoundedRequests(k)

Output(r, k, acc) ==
  CASE r = "square" -> squareOutput(k, acc)
    [] r = "fib" -> fibOutput(k, acc)
    [] r = "fibMany" -> fibManyOutput(k, acc)
    [] r = "alias" -> aliasOutput(k, acc)
    [] r = "fibForget" -> fibForgetOutput(k, acc)
    [] r = "cyclic" -> cyclicOutput(k, acc)
    [] r = "ahead" -> aheadOutput(k, acc)
    [] r = "fibNoZero" -> fibNoZeroOutput(k, acc)
    [] r = "fibBounded" -> fibBoundedOutput(k, acc)

(***************************************************************************)
(* State.                                                                  *)
(***************************************************************************)
VARIABLES
  rule,     \* the rule the cache was constructed with (field f)
  cache,    \* the container (field cache)
  stack,    \* the call stack, innermost frame last
  invoked,  \* per key: rule invocations since the last remove or clear
  cur,      \* the top-level call in progress: what it is and where it started
  ev        \* what the last step did

vars == <<rule, cache, stack, invoked, cur, ev>>

NoKey == [id |-> 0 - 1, tag |-> 0]

\* A top-level call: op(keys) started with the container pre and has invoked
\* the rule inv times; again holds what the call completed just before it
\* returned when that call was a get of the same key; cleared holds the
\* container as it was before clear() when the call is a get that comes
\* right after a clear(); removed holds what remove returned and the
\* container before it when the call is a get of the key that a remove just
\* before it was called with; faulted holds the key the rule panicked on when
\* the call is a get that comes right after a call the rule panicked in.
Call(op, ks, again) ==
  [op |-> op, keys |-> ks, pre |-> cache, inv |-> 0, again |-> again,
   cleared |-> IF op = "get" /\ ev.type = "clear" THEN <<ev.pre>> ELSE <<>>,
   removed |-> IF op = "get" /\ ev.type = "remove" /\ KeyEq(ev.key, ks[1])
               THEN <<[vals |-> ev.vals, pre |-> ev.pre]>> ELSE <<>>,
   faulted |-> IF op = "get" /\ ev.type = "fault" THEN <<ev.key>> ELSE <<>>]

NoCall ==
  [op |-> "none", keys |-> <<>>, pre |-> {}, inv |-> 0, again |-> <<>>, cleared |-> <<>>,
   removed |-> <<>>, faulted |-> <<>>]

\* A completed top-level call: the call and what it returned.
Done(c, vals) ==
  [op |-> c.op, keys |-> c.keys, pre |-> c.pre, inv |-> c.inv, again |-> c.again,
   cleared |-> c.cleared, removed |-> c.removed, faulted |-> c.faulted, vals |-> vals]

NoDone == Done(NoCall, <<>>)

\* A step: what it did, the key it was about, the values it returned, the
\* output of the rule it held, the container before it and, when it
\* completed a top-level call, that call.
Event(type, k, vals, out, top) ==
  [type |-> type, key |-> k, vals |-> vals, out |-> out, pre |-> cache, top |-> top]

\* A get that stores a default value before it calls the rule.
GetFrameStoresFirst(via, k) == [kind |-> "get", via |-> via, key |-> k, pc |-> "put", out |-> 0]

\* Frames.  A get frame is at "has" (about to test has(&input)), at "call"
\* (the rule is running above it) or at "put" (the output is in hand).
GetFrame(via, k) == [kind |-> "get", via |-> via, key |-> k, pc |-> "has", out |-> 0]

\* The rule computing key k: pos is the next request, acc what the earlier
\* requests returned.
RuleFrame(k) == [kind |-> "rule", key |-> k, pos |-> 1, acc |-> <<>>]

\* A get_many whose loop leaves out the first input.
ManyFrameSkip(via, ks) == [kind |-> "many", via |-> via, keys |-> ks, i |-> 2]

RECURSIVE Reverse(_)
Reverse(s) == IF s = <<>> THEN <<>> ELSE Append(Reverse(Tail(s)), Head(s))

\* A get_many whose loop runs over the inputs from the right.
ManyFrameReversed(via, ks) == [kind |-> "many", via |-> via, keys |-> Reverse(ks), i |-> 1]

\* get_many in its loop (i <= N) or about to build the result.
ManyFrame(via, ks) == [kind |-> "many", via |-> via, keys |-> ks, i |-> 1]

Top == stack[Len(stack)]

Rest == SubSeq(stack, 1, Len(stack) - 1)

TopIs(kind) == stack # <<>> /\ Top.kind = kind

\* A return that leaves the rule at the request it has just made.
ResumeSamePlace(stk, vals) ==
  IF stk = <<>> THEN <<>>
  ELSE LET n == Len(stk)
           f == stk[n]
       IN CASE f.kind = "rule" -> stk
            [] f.kind = "many" ->
                 [stk EXCEPT ![n] = [f EXCEPT !.i = @ + 1]]
            [] f.kind = "get" ->
                 [stk EXCEPT ![n] = [f EXCEPT !.pc = "put", !.out = vals[1]]]

\* The caller's stack once the call above it has returned vals.
Resume(stk, vals) ==
  IF stk = <<>> THEN <<>>
  ELSE LET n == Len(stk)
           f == stk[n]
       IN CASE f.kind = "rule" ->
                 [stk EXCEPT ![n] = [f EXCEPT !.pos = @ + 1, !.acc = Append(@, vals)]]
            [] f.kind = "many" ->
                 [stk EXCEPT ![n] = [f EXCEPT !.i = @ + 1]]
            [] f.kind = "get" ->
                 [stk EXCEPT ![n] = [f EXCEPT !.pc = "put", !.out = vals[1]]]

\* The innermost call returns vals to its caller.
Return(vals) ==
  /\ stack' = Resume(Rest, vals)
  /\ cur' = IF Rest = <<>> THEN NoCall ELSE cur

\* The top-level call that a return of vals completes, if it completes one.
Completed(vals) == IF Rest = <<>> THEN Done(cur, vals) ELSE NoDone

Init ==
  /\ rule \in Rules
  /\ cache = {}
  /\ stack = <<>>
  /\ invoked = [k \in KeyRepr |-> 0]
  /\ cur = NoCall
  /\ ev = [type |-> "new", key |-> NoKey, vals |-> <<>>, out |-> <<>>, pre |-> {},
           top |-> NoDone]

(***************************************************************************)
(* Top-level calls on the GenericCache.                                    *)
(***************************************************************************)
\* Nothing is in progress and no reference into the container is held.
Idle == stack = <<>> /\ ev.type \notin {"hit", "stored", "kept", "collect", "unwrap_none"}

CallGet(k) ==
  /\ Idle
  /\ stack' = <<GetFrame("GenericCache", k)>>
  /\ cur' = Call("get", <<k>>,
                 IF ev.type = "release" /\ ev.key = k THEN ev.vals ELSE <<>>)
  /\ ev' = Event("call", k, <<>>, <<>>, NoDone)
  /\ UNCHANGED <<rule, cache, invoked>>

CallGetMany(ks) ==
  /\ Idle
  /\ stack' = <<ManyFrame("GenericCache", ks)>>
  /\ cur' = Call("get_many", ks, <<>>)
  /\ ev' = Event("call_many", NoKey, <<>>, <<>>, NoDone)
  /\ UNCHANGED <<rule, cache, invoked>>

\* A remove that takes away the key and every key above it.
RemoveFromUp(k) ==
  /\ Idle
  /\ cache' = {e \in cache : e.key.id < k.id}
  /\ invoked' = [x \in KeyRepr |-> 0]
  /\ ev' = Event("remove", k, Removed(cache, k), <<>>,
                 Done(Call("remove", <<k>>, <<>>), Removed(cache, k)))
  /\ UNCHANGED <<rule, stack, cur>>

\* remove(&input)
Remove(k) ==
  /\ Idle
  /\ cache' = RemoveFrom(cache, k)
  /\ invoked' = [x \in KeyRepr |-> 0]
  /\ ev' = Event("remove", k, Removed(cache, k), <<>>,
                 Done(Call("remove", <<k>>, <<>>), Removed(cache, k)))
  /\ UNCHANGED <<rule, stack, cur>>

\* clear()
Clear ==
  /\ Idle
  /\ cache' = Cleared(cache)
  /\ invoked' = [x \in KeyRepr |-> 0]
  /\ ev' = Event("clear", NoKey, <<>>, <<>>, Done(Call("clear", <<>>, <<>>), <<>>))
  /\ UNCHANGED <<rule, stack, cur>>

\* len()
CacheLen ==
  /\ Idle
  /\ ev' = Event("len", NoKey, <<ContainerLen(cache)>>, <<>>,
                 Done(Call("len", <<>>, <<>>), <<ContainerLen(cache)>>))
  /\ UNCHANGED <<rule, cache, stack, invoked, cur>>

\* get and get_many return references that borrow the cache (fn get(&mut self,
\* ..) -> &O): the caller has to let them go before it can call the cache
\* again.  The step keeps which key a get was for and what it returned.
ReleaseRef ==
  /\ stack = <<>> /\ ~Idle
  /\ ev' = Event("release",
                 IF ev.top.op = "get" THEN ev.top.keys[1] ELSE NoKey,
                 IF ev.top.op = "get" THEN ev.top.vals ELSE <<>>,
                 <<>>, NoDone)
  /\ UNCHANGED <<rule, cache, stack, invoked, cur>>

(***************************************************************************)
(* get, of GenericCache and of RefCache (the two bodies are the same but   *)
(* for the handle the rule is given).                                      *)
(***************************************************************************)
\* if self.cache.has(&input) { self.cache.get(&input).unwrap() }
GetHit ==
  /\ TopIs("get") /\ Top.pc = "has"
  /\ Has(cache, Top.key)
  /\ Return(<<Lookup(cache, Top.key)>>)
  /\ ev' = Event("hit", Top.key, <<Lookup(cache, Top.key)>>, <<>>,
                 Completed(<<Lookup(cache, Top.key)>>))
  /\ UNCHANGED <<rule, cache, invoked>>

\* else { let output = (self.f)(&mut ref_cache, &input); ...
GetMiss ==
  /\ TopIs("get") /\ Top.pc = "has"
  /\ ~Has(cache, Top.key)
  /\ stack' = Append([stack EXCEPT ![Len(stack)].pc = "call"], RuleFrame(Top.key))
  /\ invoked' = [invoked EXCEPT ![Top.key] = @ + 1]
  /\ cur' = [cur EXCEPT !.inv = @ + 1]
  /\ ev' = Event("invoke", Top.key, <<>>, <<>>, NoDone)
  /\ UNCHANGED <<rule, cache>>

\* ... self.cache.put(input, output) }
GetPut ==
  /\ TopIs("get") /\ Top.pc = "put"
  /\ cache' = Put(cache, Top.key, Top.out)
  /\ Return(<<PutRef(cache, Top.key, Top.out)>>)
  /\ ev' = Event(IF Has(cache, Top.key) THEN "kept" ELSE "stored", Top.key,
                 <<PutRef(cache, Top.key, Top.out)>>, <<Top.out>>,
                 Completed(<<PutRef(cache, Top.key, Top.out)>>))
  /\ UNCHANGED <<rule, invoked>>

(***************************************************************************)
(* The rule, running with the handle.                                      *)
(***************************************************************************)
RuleRequest ==
  /\ TopIs("rule") /\ Top.pos <= Len(Requests(rule, Top.key))
  /\ LET rq == Requests(rule, Top.key)[Top.pos]
     IN /\ stack' = Append(stack, IF rq.many THEN ManyFrame("RefCache", rq.keys)
                                  ELSE GetFrame("RefCache", rq.keys[1]))
        /\ ev' = Event("request", Top.key, <<>>, <<>>, NoDone)
  /\ UNCHANGED <<rule, cache, invoked, cur>>

RuleReturn ==
  /\ TopIs("rule") /\ Top.pos > Len(Requests(rule, Top.key))
  /\ stack' = Resume(Rest, <<Output(rule, Top.key, Top.acc)>>)
  /\ ev' = Event("output", Top.key, <<>>, <<Output(rule, Top.key, Top.acc)>>, NoDone)
  /\ UNCHANGED <<rule, cache, invoked, cur>>

(***************************************************************************)
(* get_many, of GenericCache and of RefCache.                              *)
(***************************************************************************)
\* for i in &inputs { self.get(i.clone()); }
ManyNext ==
  /\ TopIs("many") /\ Top.i <= Len(Top.keys)
  /\ stack' = Append(stack, GetFrame(Top.via, Top.keys[Top.i]))
  /\ ev' = Event("next", Top.keys[Top.i], <<>>, <<>>, NoDone)
  /\ UNCHANGED <<rule, cache, invoked, cur>>

\* A second pass that looks up the first input at every position.
ManyResultFirst(c, ks) == [j \in 1..Len(ks) |-> (CHOOSE e \in c : e.key.id = ks[1].id).val]

\* inputs.map(|i| self.cache.get(&i).unwrap())
ManyResult(c, ks) == [j \in 1..Len(ks) |-> Lookup(c, ks[j])]

ManyCollect ==
  /\ TopIs("many") /\ Top.i > Len(Top.keys)
  /\ Return(ManyResult(cache, Top.keys))
  /\ ev' = Event(IF \A j \in 1..Len(Top.keys) : Has(cache, Top.keys[j])
                 THEN "collect" ELSE "unwrap_none",
                 NoKey, ManyResult(cache, Top.keys), <<>>,
                 Completed(ManyResult(cache, Top.keys)))
  /\ UNCHANGED <<rule, cache, invoked>>

RECURSIVE SeqsUpTo(_, _)
SeqsUpTo(S, n) ==
  IF n = 0 THEN {<<>>}
  ELSE LET shorter == SeqsUpTo(S, n - 1)
       IN shorter \cup {Append(s, x) : s \in {t \in shorter : Len(t) = n - 1}, x \in S}

\* The arrays get_many is called with at the top level.
ManyInputs == SeqsUpTo({k \in KeyRepr : k.tag = 0}, MaxMany)

Next ==
  \/ \E k \in Keys(rule) : CallGet(k)
  \/ \E ks \in ManyInputs : CallGetMany(ks)
  \/ \E k \in Keys(rule) : Remove(k)
  \/ Clear
  \/ CacheLen
  \/ ReleaseRef
  \/ GetHit
  \/ GetMiss
  \/ GetPut
  \/ RuleRequest
  \/ RuleReturn
  \/ ManyNext
  \/ ManyCollect

Spec == Init /\ [][Next]_vars

(***************************************************************************)
(* The same cache constructed with the rule over keys that have two        *)
(* spellings.  get_many is called with two keys that are equal to the      *)
(* container, in either spelling.                                          *)
(***************************************************************************)
SpellingPairs == {ks \in KeyRepr \X KeyRepr : KeyEq(ks[1], ks[2])}

InitAlias ==
  /\ rule = "alias"
  /\ cache = {}
  /\ stack = <<>>
  /\ invoked = [k \in KeyRepr |-> 0]
  /\ cur = NoCall
  /\ ev = [type |-> "new", key |-> NoKey, vals |-> <<>>, out |-> <<>>, pre |-> {},
           top |-> NoDone]

NextAlias ==
  \/ \E k \in Keys(rule) : CallGet(k)
  \/ \E ks \in SpellingPairs : CallGetMany(ks)
  \/ \E k \in Keys(rule) : Remove(k)
  \/ Clear
  \/ CacheLen
  \/ ReleaseRef
  \/ GetHit
  \/ GetMiss
  \/ GetPut
  \/ RuleRequest
  \/ RuleReturn
  \/ ManyNext
  \/ ManyCollect

SpecAlias == InitAlias /\ [][NextAlias]_vars

(***************************************************************************)
(* VecCache: the cache over a Vec.  Here `cache` is the vector, a sequence *)
(* whose element i + 1 is the value at index i, keys are indices (the id   *)
(* of a key with tag 0), and the rule is handed the cache itself.  A get   *)
(* frame is at "len" (about to compare len with the input), at "while"     *)
(* (at the loop test), at "call" (the rule is running above it) or at      *)
(* "put" (next_val is in hand, about to be pushed).                        *)
(***************************************************************************)
VecRules == {"square", "fib", "fibMany"}

VecGetFrame(k) == [kind |-> "get", via |-> "VecCache", key |-> k, pc |-> "len", out |-> 0]

VecManyFrame(ks) == [kind |-> "many", via |-> "VecCache", keys |-> ks, i |-> 0]

\* Vec::len
VecLen(c) == Len(c)

\* A fill that computes the requested index straight away.
VecNextInput(c, n) == n

\* let next = self.cache.len(): the index the loop computes next.
VecNext(c, n) == VecLen(c)

\* A push at the front of the vector.
VecPushFront(c, v) == <<v>> \o c

\* A push that drops the value.
VecPushNothing(c, v) == c

\* Vec::push
VecPush(c, v) == Append(c, v)

\* Vec::get(input): the Option it returns.
VecAt(c, n) == IF n < VecLen(c) THEN <<c[n + 1]>> ELSE <<>>

RECURSIVE MaxId(_)
\* inputs.iter().max().copied().unwrap_or(0)
MaxId(ks) ==
  IF ks = <<>> THEN 0
  ELSE LET m == MaxId(Tail(ks)) IN IF Head(ks).id > m THEN Head(ks).id ELSE m

InitVec ==
  /\ rule \in VecRules
  /\ cache = <<>>
  /\ stack = <<>>
  /\ invoked = [k \in KeyRepr |-> 0]
  /\ cur = NoCall
  /\ ev = [type |-> "new", key |-> NoKey, vals |-> <<>>, out |-> <<>>, pre |-> <<>>,
           top |-> NoDone]

VecCallGet(k) ==
  /\ stack = <<>>
  /\ stack' = <<VecGetFrame(k)>>
  /\ cur' = Call("get", <<k>>, <<>>)
  /\ ev' = Event("call", k, <<>>, <<>>, NoDone)
  /\ UNCHANGED <<rule, cache, invoked>>

VecCallGetMany(ks) ==
  /\ stack = <<>>
  /\ stack' = <<VecManyFrame(ks)>>
  /\ cur' = Call("get_many", ks, <<>>)
  /\ ev' = Event("call_many", NoKey, <<>>, <<>>, NoDone)
  /\ UNCHANGED <<rule, cache, invoked>>

\* clear()
VecClear ==
  /\ stack = <<>>
  /\ cache' = <<>>
  /\ invoked' = [x \in KeyRepr |-> 0]
  /\ ev' = Event("clear", NoKey, <<>>, <<>>, Done(Call("clear", <<>>, <<>>), <<>>))
  /\ UNCHANGED <<rule, stack, cur>>

\* The largest value of the index type (usize::MAX): the model's indices
\* are the whole range of the type.
WordMax == MaxKey

\* input - len + 1 in the index type, for len <= input: the subtraction
\* is exact, the addition wraps when it is not checked.
ReserveAmount(len, input) == ((input - len) + 1) % (WordMax + 1)

\* The addition does not fit the index type.
ReserveOverflows(len, input) == (input - len) + 1 > WordMax

\* let len = self.cache.len(); if len <= input { self.cache.reserve(input - len + 1); }
\* The event holds the additional capacity asked for, if any.
VecGetReserve ==
  /\ TopIs("get") /\ Top.pc = "len"
  /\ stack' = [stack EXCEPT ![Len(stack)].pc = "while"]
  /\ ev' = Event("reserve", Top.key,
                 IF VecLen(cache) <= Top.key.id
                 THEN <<ReserveAmount(VecLen(cache), Top.key.id)>> ELSE <<>>,
                 <<>>, NoDone)
  /\ UNCHANGED <<rule, cache, invoked, cur>>

\* With overflow checks on, input - len + 1 panics when it does not fit, and
\* the panic leaves get and every call below it.
VecGetOverflow ==
  /\ TopIs("get") /\ Top.pc = "len"
  /\ VecLen(cache) <= Top.key.id
  /\ ReserveOverflows(VecLen(cache), Top.key.id)
  /\ stack' = <<>>
  /\ cur' = NoCall
  /\ ev' = Event("overflow", Top.key, <<>>, <<>>, NoDone)
  /\ UNCHANGED <<rule, cache, invoked>>

\* while self.cache.len() <= input { let next = ..; let next_val = self.compute(next);
VecGetCompute ==
  /\ TopIs("get") /\ Top.pc = "while"
  /\ VecLen(cache) <= Top.key.id
  /\ LET next == Key(VecNext(cache, Top.key.id), 0)
     IN /\ stack' = Append([stack EXCEPT ![Len(stack)].pc = "call"], RuleFrame(next))
        /\ invoked' = [invoked EXCEPT ![next] = @ + 1]
        /\ ev' = Event("invoke", next, <<>>, <<>>, NoDone)
  /\ cur' = [cur EXCEPT !.inv = @ + 1]
  /\ UNCHANGED <<rule, cache>>

\* ... self.cache.push(next_val); }
VecGetPush ==
  /\ TopIs("get") /\ Top.pc = "put"
  /\ cache' = VecPush(cache, Top.out)
  /\ stack' = [stack EXCEPT ![Len(stack)].pc = "while"]
  /\ ev' = Event("push", Key(VecLen(cache), 0), <<>>, <<Top.out>>, NoDone)
  /\ UNCHANGED <<rule, invoked, cur>>

\* self.cache.get(input).unwrap()
VecGetReturn ==
  /\ TopIs("get") /\ Top.pc = "while"
  /\ VecLen(cache) > Top.key.id
  /\ Return(VecAt(cache, Top.key.id))
  /\ ev' = Event("return", Top.key, VecAt(cache, Top.key.id), <<>>,
                 Completed(VecAt(cache, Top.key.id)))
  /\ UNCHANGED <<rule, cache, invoked>>

\* The rule calls get or get_many on the cache it was handed.
VecRuleRequest ==
  /\ TopIs("rule") /\ Top.pos <= Len(Requests(rule, Top.key))
  /\ LET rq == Requests(rule, Top.key)[Top.pos]
     IN /\ stack' = Append(stack, IF rq.many THEN VecManyFrame(rq.keys)
                                  ELSE VecGetFrame(rq.keys[1]))
        /\ ev' = Event("request", Top.key, <<>>, <<>>, NoDone)
  /\ UNCHANGED <<rule, cache, invoked, cur>>

\* let max = ..; if len <= max { self.cache.reserve(max - len + 1); }
VecManyReserve ==
  /\ TopIs("many") /\ Top.i = 0
  /\ stack' = [stack EXCEPT ![Len(stack)].i = 1]
  /\ ev' = Event("reserve", NoKey,
                 IF VecLen(cache) <= MaxId(Top.keys)
                 THEN <<ReserveAmount(VecLen(cache), MaxId(Top.keys))>> ELSE <<>>,
                 <<>>, NoDone)
  /\ UNCHANGED <<rule, cache, invoked, cur>>

\* max - len + 1 panics when overflow checks are on and it does not fit.
VecManyOverflow ==
  /\ TopIs("many") /\ Top.i = 0
  /\ VecLen(cache) <= MaxId(Top.keys)
  /\ ReserveOverflows(VecLen(cache), MaxId(Top.keys))
  /\ stack' = <<>>
  /\ cur' = NoCall
  /\ ev' = Event("overflow", NoKey, <<>>, <<>>, NoDone)
  /\ UNCHANGED <<rule, cache, invoked>>

\* for i in inputs { self.get(i); }
VecManyNext ==
  /\ TopIs("many") /\ Top.i >= 1 /\ Top.i <= Len(Top.keys)
  /\ stack' = Append(stack, VecGetFrame(Top.keys[Top.i]))
  /\ ev' = Event("next", Top.keys[Top.i], <<>>, <<>>, NoDone)
  /\ UNCHANGED <<rule, cache, invoked, cur>>

\* A second pass that reads the first input at every position.
VecManyResultFirst(c, ks) == [j \in 1..Len(ks) |-> c[ks[1].id + 1]]

\* inputs.map(|i| self.cache.get(i).unwrap())
VecManyResult(c, ks) == [j \in 1..Len(ks) |-> c[ks[j].id + 1]]

VecManyCollect ==
  /\ TopIs("many") /\ Top.i > Len(Top.keys)
  /\ Return(VecManyResult(cache, Top.keys))
  /\ ev' = Event("collect", NoKey, VecManyResult(cache, Top.keys), <<>>,
                 Completed(VecManyResult(cache, Top.keys)))
  /\ UNCHANGED <<rule, cache, invoked>>

NextVec ==
  \/ \E k \in Keys(rule) : VecCallGet(k)
  \/ \E ks \in ManyInputs : VecCallGetMany(ks)
  \/ VecClear
  \/ VecGetReserve
  \/ VecGetOverflow
  \/ VecGetCompute
  \/ VecGetPush
  \/ VecGetReturn
  \/ VecRuleRequest
  \/ RuleReturn
  \/ VecManyReserve
  \/ VecManyOverflow
  \/ VecManyNext
  \/ VecManyCollect

SpecVec == InitVec /\ [][NextVec]_vars

(***************************************************************************)
(* HashCache: the cache over a HashMap whose rule is handed the cache      *)
(* itself (f: Fn(&mut Self, &I) -> O).  Its get has the steps of the get   *)
(* above (contains_key, index, compute, entry(..).or_insert(..)); its      *)
(* clear and remove are public methods, so the rule can call them on the   *)
(* handle it is given.                                                     *)
(***************************************************************************)
InitSelf ==
  /\ rule = "fibForget"
  /\ cache = {}
  /\ stack = <<>>
  /\ invoked = [k \in KeyRepr |-> 0]
  /\ cur = NoCall
  /\ ev = [type |-> "new", key |-> NoKey, vals |-> <<>>, out |-> <<>>, pre |-> {},
           top |-> NoDone]

\* The rule calls cache.get(..) on the HashCache it was handed.
SelfRuleGet ==
  /\ TopIs("rule") /\ Top.pos <= Len(Requests(rule, Top.key))
  /\ LET rq == Requests(rule, Top.key)[Top.pos]
     IN /\ ~IsRemove(rq)
        /\ stack' = Append(stack, GetFrame("HashCache", rq.keys[1]))
        /\ ev' = Event("request", Top.key, <<>>, <<>>, NoDone)
  /\ UNCHANGED <<rule, cache, invoked, cur>>

\* The rule calls cache.remove(..) on the HashCache it was handed.
SelfRuleRemove ==
  /\ TopIs("rule") /\ Top.pos <= Len(Requests(rule, Top.key))
  /\ LET rq == Requests(rule, Top.key)[Top.pos]
     IN /\ IsRemove(rq)
        /\ cache' = RemoveFrom(cache, rq.keys[1])
        /\ stack' = [stack EXCEPT ![Len(stack)] =
                       [@ EXCEPT !.pos = @ + 1,
                                 !.acc = Append(@, Removed(cache, rq.keys[1]))]]
        /\ ev' = Event("remove", rq.keys[1], Removed(cache, rq.keys[1]), <<>>, NoDone)
  /\ invoked' = [x \in KeyRepr |-> 0]
  /\ UNCHANGED <<rule, cur>>

NextSelf ==
  \/ \E k \in Keys(rule) : CallGet(k)
  \/ \E k \in Keys(rule) : Remove(k)
  \/ Clear
  \/ ReleaseRef
  \/ GetHit
  \/ GetMiss
  \/ GetPut
  \/ SelfRuleGet
  \/ SelfRuleRemove
  \/ RuleReturn

SpecSelf == InitSelf /\ [][NextSelf]_vars

(***************************************************************************)
(* A rule that panics.  get calls the rule and then put: a panic in the    *)
(* rule unwinds through every get, get_many and rule on the stack, none of *)
(* which catches it, to the caller of the top-level call.                  *)
(***************************************************************************)
FaultRules == {"fibNoZero", "fibBounded"}

InitFault ==
  /\ rule \in FaultRules
  /\ cache = {}
  /\ stack = <<>>
  /\ invoked = [k \in KeyRepr |-> 0]
  /\ cur = NoCall
  /\ ev = [type |-> "new", key |-> NoKey, vals |-> <<>>, out |-> <<>>, pre |-> {},
           top |-> NoDone]

\* The keys whose get is waiting for the rule to return.
InProgress(stk) ==
  {stk[n].key : n \in {m \in 1..Len(stk) : stk[m].kind = "get" /\ stk[m].pc = "call"}}

\* An unwinding that stores a default value for the keys in progress.
UnwindStoresDefault(c, ks) == c \cup {Entry(k, 0) : k \in ks}

\* The container after the panic has unwound through the gets computing
\* ks: put comes after the call of the rule and is not reached.
Unwind(c, ks) == c

\* An unwinding that stops at the get that called the rule.
UnwoundToCaller(stk) == SubSeq(stk, 1, Len(stk) - 2)

\* The stack after the panic: no frame catches it.
Unwound(stk) == <<>>

\* The rule returns, not having panicked.
RuleReturnOk ==
  /\ TopIs("rule") /\ ~Faults(rule, Top.key)
  /\ RuleReturn

\* The rule panics.  The event holds the keys that were in progress and how
\* many times the rule had been invoked for the key it panicked on.
RuleFault ==
  /\ TopIs("rule") /\ Faults(rule, Top.key)
  /\ cache' = Unwind(cache, InProgress(stack))
  /\ stack' = Unwound(stack)
  /\ cur' = NoCall
  /\ invoked' = [k \in KeyRepr |-> IF k \in InProgress(stack) THEN 0 ELSE invoked[k]]
  /\ ev' = [type |-> "fault", key |-> Top.key, vals |-> <<>>, out |-> <<>>,
            pre |-> cache, top |-> Done(cur, <<>>),
            unwound |-> InProgress(stack), tries |-> invoked[Top.key]]
  /\ UNCHANGED rule

NextFault ==
  \/ \E k \in Keys(rule) : CallGet(k)
  \/ \E ks \in ManyInputs : CallGetMany(ks)
  \/ Clear
  \/ ReleaseRef
  \/ GetHit
  \/ GetMiss
  \/ GetPut
  \/ RuleRequest
  \/ RuleReturnOk
  \/ RuleFault
  \/ ManyNext
  \/ ManyCollect

SpecFault == InitFault /\ [][NextFault]_vars

(***************************************************************************)
(* The VecCache with a rule that panics: the panic leaves the fill loop     *)
(* between the call of the rule and the push.                              *)
(***************************************************************************)
InitVecFault ==
  /\ rule \in FaultRules
  /\ cache = <<>>
  /\ stack = <<>>
  /\ invoked = [k \in KeyRepr |-> 0]
  /\ cur = NoCall
  /\ ev = [type |-> "new", key |-> NoKey, vals |-> <<>>, out |-> <<>>, pre |-> <<>>,
           top |-> NoDone]

\* The rule panics in the fill loop: compute does not return, push is not
\* reached, and no frame catches the panic.
VecRuleFault ==
  /\ TopIs("rule") /\ Faults(rule, Top.key)
  /\ stack' = Unwound(stack)
  /\ cur' = NoCall
  /\ invoked' = [invoked EXCEPT ![Top.key] = 0]
  /\ ev' = [type |-> "fault", key |-> Top.key, vals |-> <<>>, out |-> <<>>,
            pre |-> cache, top |-> Done(cur, <<>>),
            unwound |-> {Top.key}, tries |-> invoked[Top.key]]
  /\ UNCHANGED <<rule, cache>>

NextVecFault ==
  \/ \E k \in Keys(rule) : VecCallGet(k)
  \/ \E ks \in ManyInputs : VecCallGetMany(ks)
  \/ VecClear
  \/ VecGetReserve
  \/ VecGetOverflow
  \/ VecGetCompute
  \/ VecGetPush
  \/ VecGetReturn
  \/ VecRuleRequest
  \/ RuleReturnOk
  \/ VecRuleFault
  \/ VecManyReserve
  \/ VecManyOverflow
  \/ VecManyNext
  \/ VecManyCollect

SpecVecFault == InitVecFault /\ [][NextVecFault]_vars

(***************************************************************************)
(* The VecCache with a rule that asks for a higher index.  The nested get  *)
(* finds len() <= its input and enters the fill loop, which starts at      *)
(* len(): the index whose rule is running.  The stack holds MaxDepth       *)
(* frames.                                                                 *)
(***************************************************************************)
InitVecAhead ==
  /\ rule = "ahead"
  /\ cache = <<>>
  /\ stack = <<>>
  /\ invoked = [k \in KeyRepr |-> 0]
  /\ cur = NoCall
  /\ ev = [type |-> "new", key |-> NoKey, vals |-> <<>>, out |-> <<>>, pre |-> <<>>,
           top |-> NoDone]

VecAheadCompute ==
  /\ Len(stack) < MaxDepth
  /\ VecGetCompute

\* The call of compute that does not fit the stack ends the program.
VecStackOverflow ==
  /\ TopIs("get") /\ Top.pc = "while"
  /\ VecLen(cache) <= Top.key.id
  /\ Len(stack) >= MaxDepth
  /\ ev.type # "abort"
  /\ ev' = Event("abort", Key(VecNext(cache, Top.key.id), 0), <<>>, <<>>, NoDone)
  /\ UNCHANGED <<rule, cache, stack, invoked, cur>>

NextVecAhead ==
  \/ \E k \in Keys(rule) : VecCallGet(k)
  \/ \E ks \in ManyInputs : VecCallGetMany(ks)
  \/ VecClear
  \/ VecManyReserve
  \/ VecManyOverflow
  \/ VecManyNext
  \/ VecManyCollect
  \/ VecGetReserve
  \/ VecGetOverflow
  \/ VecAheadCompute
  \/ VecStackOverflow
  \/ VecGetPush
  \/ VecGetReturn
  \/ VecRuleRequest
  \/ RuleReturn

SpecVecAhead == InitVecAhead /\ [][NextVecAhead]_vars

(***************************************************************************)
(* A rule with a cycle among its keys.  get tests has and calls the rule;  *)
(* nothing records that a key is being computed, so the nested get of a    *)
(* key in progress calls the rule again, until the call stack of the       *)
(* thread is exhausted and the process is aborted.                         *)
(***************************************************************************)
InitCycle ==
  /\ rule = "cyclic"
  /\ cache = {}
  /\ stack = <<>>
  /\ invoked = [k \in KeyRepr |-> 0]
  /\ cur = NoCall
  /\ ev = [type |-> "new", key |-> NoKey, vals |-> <<>>, out |-> <<>>, pre |-> {},
           top |-> NoDone]

\* The rule is called while the stack has room for its frame.
CycleGetMiss ==
  /\ Len(stack) < MaxDepth
  /\ GetMiss

\* The rule is called with no room left: the process is aborted, with the
\* stack and the container as they are.
StackOverflow ==
  /\ TopIs("get") /\ Top.pc = "has"
  /\ ~Has(cache, Top.key)
  /\ Len(stack) >= MaxDepth
  /\ ev.type # "abort"
  /\ ev' = Event("abort", Top.key, <<>>, <<>>, NoDone)
  /\ UNCHANGED <<rule, cache, stack, invoked, cur>>

NextCycle ==
  \/ \E k \in Keys(rule) : CallGet(k)
  \/ \E ks \in ManyInputs : CallGetMany(ks)
  \/ Clear
  \/ ReleaseRef
  \/ GetHit
  \/ CycleGetMiss
  \/ StackOverflow
  \/ GetPut
  \/ RuleRequest
  \/ RuleReturn
  \/ ManyNext
  \/ ManyCollect

SpecCycle == InitCycle /\ [][NextCycle]_vars

(***************************************************************************)
(* Threads sharing one cache behind a mutex (static HC: Lazy<Mutex<..>>):  *)
(* a thread locks, calls get once or more on the guard, and drops the      *)
(* guard.  Here `stack` holds one call stack per thread and `cur` the      *)
(* holder of the mutex (NoThread when it is free) with, per thread, where  *)
(* it is ("idle", "want": blocked in lock(), "locked": holding the guard,  *)
(* "in": inside get, "got": get has returned), the key it asks for and     *)
(* what get returned to it.                                                *)
(***************************************************************************)
Threads == 1..NumThreads

NoThread == 0

MutexRules == {"square", "fib"}

ThreadAt(pc, k, vals) == [pc |-> pc, key |-> k, vals |-> vals]

\* A lock that is handed out while another thread holds it.
MutexFreeAlways(holder) == TRUE

\* Mutex::lock returns when no thread holds the mutex.
MutexFree(holder) == holder = NoThread

MutexEvent(type, t, k) == [type |-> type, thread |-> t, key |-> k, pre |-> cache]

InitMutex ==
  /\ rule \in MutexRules
  /\ cache = {}
  /\ stack = [t \in Threads |-> <<>>]
  /\ invoked = [k \in KeyRepr |-> 0]
  /\ cur = [holder |-> NoThread, th |-> [t \in Threads |-> ThreadAt("idle", NoKey, <<>>)]]
  /\ ev = [type |-> "new", thread |-> NoThread, key |-> NoKey, pre |-> {}]

\* The innermost frame of thread t.
ThreadTop(t) == stack[t][Len(stack[t])]

ThreadTopIs(t, kind) == stack[t] # <<>> /\ ThreadTop(t).kind = kind

\* The innermost call of thread t returns vals: to its caller in the cache,
\* or to the thread when it was the get the thread called.
ThreadReturn(t, vals) ==
  LET rest == SubSeq(stack[t], 1, Len(stack[t]) - 1)
  IN /\ stack' = [stack EXCEPT ![t] = Resume(rest, vals)]
     /\ cur' = IF rest = <<>>
               THEN [cur EXCEPT !.th[t] = ThreadAt("got", @.key, vals)]
               ELSE cur

\* Thread t decides to ask for key k.
MutexWant(t, k) ==
  /\ cur.th[t].pc = "idle"
  /\ cur' = [cur EXCEPT !.th[t] = ThreadAt("want", k, <<>>)]
  /\ ev' = MutexEvent("want", t, k)
  /\ UNCHANGED <<rule, cache, stack, invoked>>

\* let mut hc = HC.lock().unwrap();
MutexLock(t) ==
  /\ cur.th[t].pc = "want"
  /\ MutexFree(cur.holder)
  /\ cur' = [cur EXCEPT !.holder = t, !.th[t].pc = "locked"]
  /\ ev' = MutexEvent("lock", t, cur.th[t].key)
  /\ UNCHANGED <<rule, cache, stack, invoked>>

\* hc.get(k), on the guard
MutexCallGet(t) ==
  /\ cur.th[t].pc = "locked"
  /\ stack' = [stack EXCEPT ![t] = <<GetFrame("HashCache", cur.th[t].key)>>]
  /\ cur' = [cur EXCEPT !.th[t].pc = "in"]
  /\ ev' = MutexEvent("call", t, cur.th[t].key)
  /\ UNCHANGED <<rule, cache, invoked>>

\* The thread, still holding the guard, asks for another key.
MutexNextGet(t, k) ==
  /\ cur.th[t].pc = "got"
  /\ cur' = [cur EXCEPT !.th[t] = ThreadAt("locked", k, <<>>)]
  /\ ev' = MutexEvent("next", t, k)
  /\ UNCHANGED <<rule, cache, stack, invoked>>

\* The guard is dropped.
MutexUnlock(t) ==
  /\ cur.th[t].pc = "got"
  /\ cur' = [cur EXCEPT !.holder = IF @ = t THEN NoThread ELSE @,
                        !.th[t] = ThreadAt("idle", NoKey, <<>>)]
  /\ ev' = MutexEvent("unlock", t, cur.th[t].key)
  /\ UNCHANGED <<rule, cache, stack, invoked>>

\* The steps of get and of the rule, taken by thread t on its own stack.
MutexGetHit(t) ==
  /\ ThreadTopIs(t, "get") /\ ThreadTop(t).pc = "has"
  /\ Has(cache, ThreadTop(t).key)
  /\ ThreadReturn(t, <<Lookup(cache, ThreadTop(t).key)>>)
  /\ ev' = MutexEvent("hit", t, ThreadTop(t).key)
  /\ UNCHANGED <<rule, cache, invoked>>

MutexGetMiss(t) ==
  /\ ThreadTopIs(t, "get") /\ ThreadTop(t).pc = "has"
  /\ ~Has(cache, ThreadTop(t).key)
  /\ stack' = [stack EXCEPT ![t] =
                 Append([@ EXCEPT ![Len(@)].pc = "call"], RuleFrame(ThreadTop(t).key))]
  /\ invoked' = [invoked EXCEPT ![ThreadTop(t).key] = @ + 1]
  /\ ev' = MutexEvent("invoke", t, ThreadTop(t).key)
  /\ UNCHANGED <<rule, cache, cur>>

MutexGetPut(t) ==
  /\ ThreadTopIs(t, "get") /\ ThreadTop(t).pc = "put"
  /\ cache' = Put(cache, ThreadTop(t).key, ThreadTop(t).out)
  /\ ThreadReturn(t, <<PutRef(cache, ThreadTop(t).key, ThreadTop(t).out)>>)
  /\ ev' = MutexEvent("stored", t, ThreadTop(t).key)
  /\ UNCHANGED <<rule, invoked>>

MutexRuleRequest(t) ==
  /\ ThreadTopIs(t, "rule")
  /\ ThreadTop(t).pos <= Len(Requests(rule, ThreadTop(t).key))
  /\ stack' = [stack EXCEPT ![t] =
                 Append(@, GetFrame("HashCache",
                                    Requests(rule, ThreadTop(t).key)[ThreadTop(t).pos].keys[1]))]
  /\ ev' = MutexEvent("request", t, ThreadTop(t).key)
  /\ UNCHANGED <<rule, cache, invoked, cur>>

MutexRuleReturn(t) ==
  /\ ThreadTopIs(t, "rule")
  /\ ThreadTop(t).pos > Len(Requests(rule, ThreadTop(t).key))
  /\ stack' = [stack EXCEPT ![t] =
                 Resume(SubSeq(@, 1, Len(@) - 1),
                        <<Output(rule, ThreadTop(t).key, ThreadTop(t).acc)>>)]
  /\ ev' = MutexEvent("output", t, ThreadTop(t).key)
  /\ UNCHANGED <<rule, cache, invoked, cur>>

NextMutex ==
  \E t \in Threads :
    \/ \E k \in Keys(rule) : MutexWant(t, k)
    \/ MutexLock(t)
    \/ MutexCallGet(t)
    \/ \E k \in Keys(rule) : MutexNextGet(t, k)
    \/ MutexUnlock(t)
    \/ MutexGetHit(t)
    \/ MutexGetMiss(t)
    \/ MutexGetPut(t)
    \/ MutexRuleRequest(t)
    \/ MutexRuleReturn(t)

SpecMutex == InitMutex /\ [][NextMutex]_vars

(***************************************************************************)
(* The calls of the handle next to the calls of the cache.  Every frame of  *)
(* get and get_many keeps the container it started from and the number of  *)
(* rule invocations made before it; here `invoked` is the sequence of the  *)
(* keys the rule has been invoked for since the last clear.  The event of  *)
(* a returning call tells who was called (via), for which keys, from which *)
(* container, what came back and which invocations the call made.          *)
(***************************************************************************)
HandleRules == {"fib", "fibMany"}

\* A handle whose get takes the output for granted instead of testing has.
StartedFrameUntested(f) ==
  [kind |-> f.kind, via |-> f.via, key |-> f.key,
   pc |-> IF f.via = "RefCache" THEN "put" ELSE f.pc, out |-> f.out,
   pre |-> cache, mark |-> Len(invoked)]

\* The frame of a get that starts now: RefCache::get has the body of
\* GenericCache::get.
StartedFrame(f) ==
  [kind |-> f.kind, via |-> f.via, key |-> f.key, pc |-> f.pc, out |-> f.out,
   pre |-> cache, mark |-> Len(invoked)]

\* The frame of a get_many that starts now.
StartedMany(f) ==
  [kind |-> f.kind, via |-> f.via, keys |-> f.keys, i |-> f.i,
   pre |-> cache, mark |-> Len(invoked)]

\* The call of frame f returns vals, leaving the container as c.
Returned(f, ks, vals, c) ==
  [type |-> "return", via |-> f.via, many |-> f.kind = "many", keys |-> ks,
   pre |-> f.pre, vals |-> vals, post |-> c,
   order |-> SubSeq(invoked, f.mark + 1, Len(invoked))]

InitHandle ==
  /\ rule \in HandleRules
  /\ cache = {}
  /\ stack = <<>>
  /\ invoked = <<>>
  /\ cur = NoCall
  /\ ev = [type |-> "new"]

HandleCallGet(k) ==
  /\ stack = <<>>
  /\ stack' = <<StartedFrame(GetFrame("GenericCache", k))>>
  /\ ev' = [type |-> "call"]
  /\ UNCHANGED <<rule, cache, invoked, cur>>

HandleCallGetMany(ks) ==
  /\ stack = <<>>
  /\ stack' = <<StartedMany(ManyFrame("GenericCache", ks))>>
  /\ ev' = [type |-> "call"]
  /\ UNCHANGED <<rule, cache, invoked, cur>>

HandleClear ==
  /\ stack = <<>> /\ cache # {}
  /\ cache' = Cleared(cache)
  /\ invoked' = <<>>
  /\ ev' = [type |-> "clear"]
  /\ UNCHANGED <<rule, stack, cur>>

HandleGetHit ==
  /\ TopIs("get") /\ Top.pc = "has"
  /\ Has(cache, Top.key)
  /\ stack' = Resume(Rest, <<Lookup(cache, Top.key)>>)
  /\ ev' = Returned(Top, <<Top.key>>, <<Lookup(cache, Top.key)>>, cache)
  /\ UNCHANGED <<rule, cache, invoked, cur>>

HandleGetMiss ==
  /\ TopIs("get") /\ Top.pc = "has"
  /\ ~Has(cache, Top.key)
  /\ stack' = Append([stack EXCEPT ![Len(stack)].pc = "call"], RuleFrame(Top.key))
  /\ invoked' = Append(invoked, Top.key)
  /\ ev' = [type |-> "invoke"]
  /\ UNCHANGED <<rule, cache, cur>>

HandleGetPut ==
  /\ TopIs("get") /\ Top.pc = "put"
  /\ cache' = Put(cache, Top.key, Top.out)
  /\ stack' = Resume(Rest, <<PutRef(cache, Top.key, Top.out)>>)
  /\ ev' = Returned(Top, <<Top.key>>, <<PutRef(cache, Top.key, Top.out)>>,
                    Put(cache, Top.key, Top.out))
  /\ UNCHANGED <<rule, invoked, cur>>

HandleRuleRequest ==
  /\ TopIs("rule") /\ Top.pos <= Len(Requests(rule, Top.key))
  /\ LET rq == Requests(rule, Top.key)[Top.pos]
     IN stack' = Append(stack, IF rq.many THEN StartedMany(ManyFrame("RefCache", rq.keys))
                               ELSE StartedFrame(GetFrame("RefCache", rq.keys[1])))
  /\ ev' = [type |-> "request"]
  /\ UNCHANGED <<rule, cache, invoked, cur>>

HandleManyNext ==
  /\ TopIs("many") /\ Top.i <= Len(Top.keys)
  /\ stack' = Append(stack, StartedFrame(GetFrame(Top.via, Top.keys[Top.i])))
  /\ ev' = [type |-> "next"]
  /\ UNCHANGED <<rule, cache, invoked, cur>>

HandleManyCollect ==
  /\ TopIs("many") /\ Top.i > Len(Top.keys)
  /\ stack' = Resume(Rest, ManyResult(cache, Top.keys))
  /\ ev' = Returned(Top, Top.keys, ManyResult(cache, Top.keys), cache)
  /\ UNCHANGED <<rule, cache, invoked, cur>>

NextHandle ==
  \/ \E k \in Keys(rule) : HandleCallGet(k)
  \/ \E ks \in ManyInputs : HandleCallGetMany(ks)
  \/ HandleClear
  \/ HandleGetHit
  \/ HandleGetMiss
  \/ HandleGetPut
  \/ HandleRuleRequest
  \/ RuleReturn
  \/ HandleManyNext
  \/ HandleManyCollect

SpecHandle == InitHandle /\ [][NextHandle]_vars

(***************************************************************************)
(* The sparse caches side by side.  HashCache::get calls contains_key,     *)
(* index and entry().or_insert() on its HashMap; RawCache::get and         *)
(* GenericCache::get call has, get().unwrap() and put of the container,    *)
(* which HashMap implements by contains_key, get and entry().or_insert();  *)
(* BTreeCache::get calls contains_key, index and entry().or_insert() on a  *)
(* BTreeMap, modelled as the sequence of its entries in key order.  Here   *)
(* `cache` holds one container per cache and every call is made on all of  *)
(* them; the event holds what each returned and the keys each invoked the  *)
(* rule for, in order.                                                     *)
(***************************************************************************)
Sparse == {"HashCache", "BTreeCache", "RawCache", "GenericCache"}

SparseRules == {"square", "fib", "alias"}

\* The positions of the entries of BTreeMap c whose key compares Equal to k.
BTreeFind(c, k) == {i \in 1..Len(c) : c[i].key.id = k.id}

\* A contains_key that compares the spelling of the keys.
BTreeHasExact(c, k) == \E i \in 1..Len(c) : c[i].key = k

\* BTreeMap::contains_key
BTreeHas(c, k) == BTreeFind(c, k) # {}

\* BTreeMap::index
BTreeIndex(c, k) == IF BTreeFind(c, k) # {} THEN c[CHOOSE i \in BTreeFind(c, k) : TRUE].val ELSE 0 - 1

\* BTreeMap::entry(input).or_insert(output): the map afterwards.
BTreeInsert(c, k, v) ==
  IF BTreeFind(c, k) # {} THEN c
  ELSE LET Below(e) == e.key.id < k.id
           Above(e) == e.key.id > k.id
       IN SelectSeq(c, Below) \o <<Entry(k, v)>> \o SelectSeq(c, Above)

\* BTreeMap::remove: the map afterwards.
BTreeRemove(c, k) == LET Other(e) == e.key.id # k.id IN SelectSeq(c, Other)

\* The entries of the container of cache w, as a set.
SparseEntries(w, c) == IF w = "BTreeCache" THEN {c[i] : i \in 1..Len(c)} ELSE c

SparseEmpty(w) == IF w = "BTreeCache" THEN <<>> ELSE {}

\* The test get starts with.
SparseHas(w, c, k) == IF w = "BTreeCache" THEN BTreeHas(c, k) ELSE Has(c, k)

\* The hit branch of get: index, or get(..).unwrap().
SparseIndex(w, c, k) ==
  CASE w = "BTreeCache" -> BTreeIndex(c, k)
    [] w = "HashCache" -> Lookup(c, k)
    [] OTHER -> ContainerGet(c, k)[1]

\* The container after the miss branch has stored output v.
SparseInsert(w, c, k, v) == IF w = "BTreeCache" THEN BTreeInsert(c, k, v) ELSE Put(c, k, v)

\* remove(k): the container afterwards and the Option returned.
SparseRemove(w, c, k) ==
  [cache |-> IF w = "BTreeCache" THEN BTreeRemove(c, k) ELSE RemoveFrom(c, k),
   vals |-> IF SparseHas(w, c, k) THEN <<SparseIndex(w, c, k)>> ELSE <<>>]

RECURSIVE SparseGet(_, _, _, _), SparseRule(_, _, _, _, _, _, _)

\* get(k) of cache w from container c: the container afterwards, the value
\* returned and the keys the rule was invoked for, in order.
SparseGet(w, r, c, k) ==
  IF SparseHas(w, c, k)
  THEN [cache |-> c, vals |-> <<SparseIndex(w, c, k)>>, order |-> <<>>]
  ELSE LET o == SparseRule(w, r, c, k, 1, <<>>, <<k>>)
           after == SparseInsert(w, o.cache, k, o.out)
       IN [cache |-> after, vals |-> <<SparseIndex(w, after, k)>>, order |-> o.order]

\* The rule for k from its request pos on, each request a get on cache w.
SparseRule(w, r, c, k, pos, acc, order) ==
  IF pos > Len(Requests(r, k)) THEN [cache |-> c, out |-> Output(r, k, acc), order |-> order]
  ELSE LET res == SparseGet(w, r, c, Requests(r, k)[pos].keys[1])
       IN SparseRule(w, r, res.cache, k, pos + 1, Append(acc, res.vals), order \o res.order)

InitSparse ==
  /\ rule \in SparseRules
  /\ cache = [w \in Sparse |-> SparseEmpty(w)]
  /\ stack = <<>>
  /\ invoked = [k \in KeyRepr |-> 0]
  /\ cur = NoCall
  /\ ev = [type |-> "new", key |-> NoKey, vals |-> [w \in Sparse |-> <<>>],
           order |-> [w \in Sparse |-> <<>>]]

SparseCallGet(k) ==
  /\ cache' = [w \in Sparse |-> SparseGet(w, rule, cache[w], k).cache]
  /\ ev' = [type |-> "get", key |-> k,
            vals |-> [w \in Sparse |-> SparseGet(w, rule, cache[w], k).vals],
            order |-> [w \in Sparse |-> SparseGet(w, rule, cache[w], k).order]]
  /\ UNCHANGED <<rule, stack, invoked, cur>>

SparseCallRemove(k) ==
  /\ cache' = [w \in Sparse |-> SparseRemove(w, cache[w], k).cache]
  /\ ev' = [type |-> "remove", key |-> k,
            vals |-> [w \in Sparse |-> SparseRemove(w, cache[w], k).vals],
            order |-> [w \in Sparse |-> <<>>]]
  /\ UNCHANGED <<rule, stack, invoked, cur>>

SparseCallClear ==
  /\ cache' = [w \in Sparse |-> SparseEmpty(w)]
  /\ ev' = [type |-> "clear", key |-> NoKey, vals |-> [w \in Sparse |-> <<>>],
            order |-> [w \in Sparse |-> <<>>]]
  /\ UNCHANGED <<rule, stack, invoked, cur>>

NextSparse ==
  \/ \E k \in Keys(rule) : SparseCallGet(k)
  \/ \E k \in Keys(rule) : SparseCallRemove(k)
  \/ SparseCallClear

SpecSparse == InitSparse /\ [][NextSparse]_vars

(***************************************************************************)
(* Progress.  The thread that has called get keeps running: a step of get  *)
(* or of the rule that can be taken is taken.  Calls are started from any  *)
(* container that gets and removes can leave.                              *)
(***************************************************************************)
LiveRules == {"fib", "fibMany"}

InitLive ==
  /\ rule \in LiveRules
  /\ cache = {}
  /\ stack = <<>>
  /\ invoked = [k \in KeyRepr |-> 0]
  /\ cur = NoCall
  /\ ev = [type |-> "new", key |-> NoKey, vals |-> <<>>, out |-> <<>>, pre |-> {},
           top |-> NoDone]

\* The steps of a call in progress.
CacheStep ==
  \/ GetHit
  \/ GetMiss
  \/ GetPut
  \/ RuleRequest
  \/ RuleReturn
  \/ ManyNext
  \/ ManyCollect

NextLive ==
  \/ \E k \in Keys(rule) : CallGet(k)
  \/ \E k \in Keys(rule) : Remove(k)
  \/ ReleaseRef
  \/ CacheStep

SpecLive == InitLive /\ [][NextLive]_vars /\ WF_vars(CacheStep)

(***************************************************************************)
(* The same code read as functions: what a call returns and the container  *)
(* it leaves, computed by recursion on the calls the rule makes.           *)
(***************************************************************************)
RECURSIVE BigGet(_, _, _), BigRule(_, _, _, _, _), BigSeq(_, _, _)

\* get(input) from container c: the container afterwards and the value.
BigGet(r, c, k) ==
  IF Has(c, k) THEN [cache |-> c, vals |-> <<Lookup(c, k)>>]
  ELSE LET o == BigRule(r, c, k, 1, <<>>)
       IN [cache |-> Put(o.cache, k, o.out), vals |-> <<PutRef(o.cache, k, o.out)>>]

\* The rule for k from its request pos on, having got acc so far.
BigRule(r, c, k, pos, acc) ==
  IF pos > Len(Requests(r, k)) THEN [cache |-> c, out |-> Output(r, k, acc)]
  ELSE LET rq == Requests(r, k)[pos]
           res == IF rq.many
                  THEN LET after == BigSeq(r, c, rq.keys)
                       IN [cache |-> after, vals |-> ManyResult(after, rq.keys)]
                  ELSE BigGet(r, c, rq.keys[1])
       IN BigRule(r, res.cache, k, pos + 1, Append(acc, res.vals))

\* get(k1); ...; get(kN) from container c: the container afterwards.
BigSeq(r, c, ks) ==
  IF ks = <<>> THEN c ELSE BigSeq(r, BigGet(r, c, Head(ks)).cache, Tail(ks))

\* The value of the rule for k when every request is answered with the
\* value of the rule for the requested key: the function the cache memoizes.
RECURSIVE RuleValue(_, _)
RuleValue(r, k) ==
  LET rqs == Requests(r, k)
  IN Output(r, k, [p \in 1..Len(rqs) |->
                     [j \in 1..Len(rqs[p].keys) |-> RuleValue(r, rqs[p].keys[j])]])

RECURSIVE OrderGet(_, _, _), OrderRule(_, _, _, _), OrderSeq(_, _, _)

\* get(input) from container c: the keys the rule is invoked for, in order.
OrderGet(r, c, k) ==
  IF Has(c, k) THEN <<>> ELSE <<k>> \o OrderRule(r, c, k, 1)

\* The invocations made by the requests of the rule for k from pos on.
OrderRule(r, c, k, pos) ==
  IF pos > Len(Requests(r, k)) THEN <<>>
  ELSE LET rq == Requests(r, k)[pos]
       IN IF rq.many
          THEN OrderSeq(r, c, rq.keys) \o OrderRule(r, BigSeq(r, c, rq.keys), k, pos + 1)
          ELSE OrderGet(r, c, rq.keys[1])
                 \o OrderRule(r, BigGet(r, c, rq.keys[1]).cache, k, pos + 1)

\* get(k1); ...; get(kN) from container c: the invocations, in order.
OrderSeq(r, c, ks) ==
  IF ks = <<>> THEN <<>>
  ELSE OrderGet(r, c, Head(ks)) \o OrderSeq(r, BigGet(r, c, Head(ks)).cache, Tail(ks))

(***************************************************************************)
(* Capacity.  The container is a map together with the number of entries    *)
(* it has room for, `cache` = [map, cap] with len <= cap; here a get is one *)
(* step, computed by BigGet.  An insertion into a full map grows it, by an  *)
(* amount the allocator chooses; reserve grows it when the room left is     *)
(* less than `additional`; clear and remove keep the capacity.              *)
(***************************************************************************)
ReserveRules == {"square", "fib"}

Additionals == 0..MaxAdditional

\* The capacities the model distinguishes.
MaxCap == MaxKey + 2 + MaxAdditional

\* reserve that makes room for `additional` entries in all, not more entries.
ReservedInAll(cap, len, additional) ==
  IF cap >= additional THEN {cap} ELSE additional..MaxCap

\* The capacities after reserve(additional) on a map of len entries with
\* capacity cap: nothing happens when the room suffices, else the map grows
\* to hold at least len + additional, maybe more.
Reserved(cap, len, additional) ==
  IF cap >= len + additional THEN {cap} ELSE (len + additional)..MaxCap

\* The capacities after the map has come to hold len entries.
Grown(cap, len) == IF len <= cap THEN {cap} ELSE len..MaxCap

ReserveEvent(type, vals) == [type |-> type, vals |-> vals, pre |-> cache, inv |-> invoked]

InitReserve ==
  /\ rule \in ReserveRules
  /\ cache = [map |-> {}, cap |-> 0]
  /\ stack = <<>>
  /\ invoked = [k \in KeyRepr |-> 0]
  /\ cur = NoCall
  /\ ev = [type |-> "new", vals |-> <<>>, pre |-> [map |-> {}, cap |-> 0],
           inv |-> [k \in KeyRepr |-> 0]]

\* get(k): the rule has run once for every key the call has added.
ReserveGet(k) ==
  LET after == BigGet(rule, cache.map, k)
  IN /\ \E c \in Grown(cache.cap, ContainerLen(after.cache)) :
          cache' = [map |-> after.cache, cap |-> c]
     /\ invoked' = [j \in KeyRepr |->
                      IF Has(after.cache, j) /\ ~Has(cache.map, j) /\ j.tag = k.tag
                      THEN invoked[j] + 1 ELSE invoked[j]]
     /\ ev' = ReserveEvent("get", after.vals)
     /\ UNCHANGED <<rule, stack, cur>>

\* reserve(additional)
Reserve(additional) ==
  /\ \E c \in Reserved(cache.cap, ContainerLen(cache.map), additional) :
       cache' = [cache EXCEPT !.cap = c]
  /\ ev' = ReserveEvent("reserve", <<additional>>)
  /\ UNCHANGED <<rule, stack, invoked, cur>>

\* cache.shrink_to_fit(): drops room, as much as the allocator likes.
ShrinkToFit ==
  /\ cache.cap > ContainerLen(cache.map)
  /\ \E c \in ContainerLen(cache.map)..(cache.cap - 1) : cache' = [cache EXCEPT !.cap = c]
  /\ ev' = ReserveEvent("shrink", <<>>)
  /\ UNCHANGED <<rule, stack, invoked, cur>>

\* clear(): the entries go, the room stays.
ReserveClear ==
  /\ cache.map # {}
  /\ cache' = [cache EXCEPT !.map = Cleared(@)]
  /\ invoked' = [k \in KeyRepr |-> 0]
  /\ ev' = ReserveEvent("clear", <<>>)
  /\ UNCHANGED <<rule, stack, cur>>

NextReserve ==
  \/ \E k \in Keys(rule) : ReserveGet(k)
  \/ \E additional \in Additionals : Reserve(additional)
  \/ ShrinkToFit
  \/ ReserveClear

SpecReserve == InitReserve /\ [][NextReserve]_vars

(***************************************************************************)
(* A cache built by with_cache / recursive_with_cache over a container     *)
(* that holds entries already: for each key the value of the rule or some  *)
(* other value.                                                            *)
(***************************************************************************)
WithRules == {"square", "fib"}

\* The entries a container handed to with_cache may hold under rule r.
PreEntries(r) == UNION {{Entry(k, v) : v \in {RuleValue(r, k), 7}} : k \in Keys(r)}

\* The containers handed to with_cache: any entries, one at most for a key.
PreContainers(r) ==
  {c \in SUBSET PreEntries(r) : \A e1, e2 \in c : KeyEq(e1.key, e2.key) => e1 = e2}

InitWith ==
  /\ rule \in WithRules
  /\ cache \in PreContainers(rule)
  /\ stack = <<>>
  /\ invoked = [k \in KeyRepr |-> 0]
  /\ cur = NoCall
  /\ ev = [type |-> "new", key |-> NoKey, vals |-> <<>>, out |-> <<>>, pre |-> cache,
           top |-> NoDone]

NextWith ==
  \/ \E k \in Keys(rule) : CallGet(k)
  \/ ReleaseRef
  \/ GetHit
  \/ GetMiss
  \/ GetPut
  \/ RuleRequest
  \/ RuleReturn

SpecWith == InitWith /\ [][NextWith]_vars

(***************************************************************************)
(* BTreeCache and the function object it owns.  new() moves the rule into   *)
(* a Box and keeps the raw pointer; compute calls through the pointer,      *)
(* handing the rule the cache itself (&mut Self); Drop turns the pointer    *)
(* back into a Box and so releases the object.  Here `cache` holds the map, *)
(* the function object the cache owns (fn), how often each function object *)
(* has been released, and whether the cache has been dropped; the frame of *)
(* a rule holds the function object that is running.  With &mut Self the   *)
(* rule can assign a new cache to the place it was handed                  *)
(* (a deref assignment of BTreeCache::new), which drops the cache that    *)
(* was there.                                                               *)
(* What a released function object does when it goes on running is not     *)
(* defined: it returns its output, returns something else, or the program  *)
(* ends.                                                                   *)
(***************************************************************************)
FnId == {1, 2}

DropRules == {"fib", "fibReplace"}

\* The rule of function object id: the cache is built with `rule`; the
\* cache that fibReplace builds inside the rule computes squares.
RuleOf(id) == IF id = 1 THEN rule ELSE "square"

\* fibReplace: 2 => { *cache = BTreeCache::new(|_, x| x * x);
\*                    *cache.get(1) + *cache.get(0) }, else as fib.
ReqReplace == [many |-> FALSE, keys |-> <<>>, replace |-> TRUE]

IsReplace(rq) == "replace" \in DOMAIN rq

DropRequests(id, k) ==
  IF RuleOf(id) = "fibReplace"
  THEN IF k.id = 2 THEN <<ReqReplace>> \o fibRequests(k) ELSE fibRequests(k)
  ELSE Requests(RuleOf(id), k)

DropOutput(id, k, acc) ==
  IF RuleOf(id) = "fibReplace" THEN fibOutput(k, acc) ELSE Output(RuleOf(id), k, acc)

\* BTreeCache::new: an empty map and a function object of its own.
NewCache(id, released) == [map |-> {}, fn |-> id, released |-> released, dropped |-> FALSE]

\* Drop::drop: Box::from_raw(self.f) releases the function object.
Dropped(c) == [c.released EXCEPT ![c.fn] = @ + 1]

DropFrame(id, k) == [kind |-> "rule", key |-> k, pos |-> 1, acc |-> <<>>, fn |-> id]

DropEvent(type, k) == [type |-> type, key |-> k]

InitDrop ==
  /\ rule \in DropRules
  /\ cache = NewCache(1, [id \in FnId |-> 0])
  /\ stack = <<>>
  /\ invoked = [k \in KeyRepr |-> 0]
  /\ cur = NoCall
  /\ ev = DropEvent("init", NoKey)

\* The program builds a cache again after the one before has been dropped.
BTreeNew ==
  /\ cache.dropped /\ stack = <<>>
  /\ cache' = NewCache(1, [id \in FnId |-> 0])
  /\ ev' = DropEvent("new", NoKey)
  /\ UNCHANGED <<rule, stack, invoked, cur>>

\* The cache goes out of scope.
BTreeDrop ==
  /\ ~cache.dropped /\ stack = <<>>
  /\ cache' = [cache EXCEPT !.released = Dropped(cache), !.dropped = TRUE]
  /\ ev' = DropEvent("drop", NoKey)
  /\ UNCHANGED <<rule, stack, invoked, cur>>

BTreeCallGet(k) ==
  /\ ~cache.dropped /\ stack = <<>>
  /\ stack' = <<GetFrame("BTreeCache", k)>>
  /\ ev' = DropEvent("call", k)
  /\ UNCHANGED <<rule, cache, invoked, cur>>

\* if self.cache.contains_key(&input) { self.cache.index(&input) }
BTreeGetHit ==
  /\ TopIs("get") /\ Top.pc = "has" /\ ev.type # "crash"
  /\ Has(cache.map, Top.key)
  /\ stack' = Resume(Rest, <<Lookup(cache.map, Top.key)>>)
  /\ ev' = DropEvent("hit", Top.key)
  /\ UNCHANGED <<rule, cache, invoked, cur>>

\* let output = self.compute(&input): (*self.f)(self, input)
BTreeCompute ==
  /\ TopIs("get") /\ Top.pc = "has" /\ ev.type # "crash"
  /\ ~Has(cache.map, Top.key)
  /\ stack' = Append([stack EXCEPT ![Len(stack)].pc = "call"], DropFrame(cache.fn, Top.key))
  /\ ev' = DropEvent("invoke", Top.key)
  /\ UNCHANGED <<rule, cache, invoked, cur>>

\* self.cache.entry(input).or_insert(output.into())
BTreeGetPut ==
  /\ TopIs("get") /\ Top.pc = "put" /\ ev.type # "crash"
  /\ cache' = [cache EXCEPT !.map = Put(@, Top.key, Top.out)]
  /\ stack' = Resume(Rest, <<PutRef(cache.map, Top.key, Top.out)>>)
  /\ ev' = DropEvent("stored", Top.key)
  /\ UNCHANGED <<rule, invoked, cur>>

\* The rule calls get on the cache it was handed.
BTreeRuleGet ==
  /\ TopIs("rule") /\ ev.type # "crash"
  /\ Top.pos <= Len(DropRequests(Top.fn, Top.key))
  /\ ~IsReplace(DropRequests(Top.fn, Top.key)[Top.pos])
  /\ stack' = Append(stack, GetFrame("BTreeCache", DropRequests(Top.fn, Top.key)[Top.pos].keys[1]))
  /\ ev' = DropEvent("request", Top.key)
  /\ UNCHANGED <<rule, cache, invoked, cur>>

\* The rule assigns a new cache to the place it was handed: the cache that
\* was there is dropped, and with it the function object that is running.
BTreeRuleReplace ==
  /\ TopIs("rule") /\ ev.type # "crash"
  /\ Top.pos <= Len(DropRequests(Top.fn, Top.key))
  /\ IsReplace(DropRequests(Top.fn, Top.key)[Top.pos])
  /\ cache' = NewCache(2, Dropped(cache))
  /\ stack' = [stack EXCEPT ![Len(stack)].pos = @ + 1]
  /\ ev' = DropEvent("replace", Top.key)
  /\ UNCHANGED <<rule, invoked, cur>>

\* The rule returns: its output when its function object is whole, its
\* output or anything else when the object has been released.
BTreeRuleReturn ==
  /\ TopIs("rule") /\ ev.type # "crash"
  /\ Top.pos > Len(DropRequests(Top.fn, Top.key))
  /\ \E out \in {DropOutput(Top.fn, Top.key, Top.acc)}
                  \cup (IF cache.released[Top.fn] > 0 THEN {0 - 1} ELSE {}) :
       stack' = Resume(Rest, <<out>>)
  /\ ev' = DropEvent("output", Top.key)
  /\ UNCHANGED <<rule, cache, invoked, cur>>

\* A released function object goes on running and the program ends.
BTreeUseAfterFree ==
  /\ TopIs("rule") /\ ev.type # "crash"
  /\ cache.released[Top.fn] > 0
  /\ ev' = DropEvent("crash", Top.key)
  /\ UNCHANGED <<rule, cache, stack, invoked, cur>>

NextDrop ==
  \/ BTreeNew
  \/ BTreeDrop
  \/ \E k \in Keys(rule) : BTreeCallGet(k)
  \/ BTreeGetHit
  \/ BTreeCompute
  \/ BTreeGetPut
  \/ BTreeRuleGet
  \/ BTreeRuleReplace
  \/ BTreeRuleReturn
  \/ BTreeUseAfterFree

SpecDrop == InitDrop /\ [][NextDrop]_vars

(***************************************************************************)
(* Properties.                                                             *)
(***************************************************************************)
\* Container c holds an entry for a key equal to k.
Present(c, k) == \E e \in c : e.key.id = k.id

\* Container c holds the value v under a key equal to k.
Holds(c, k, v) == \E e \in c : e.key.id = k.id /\ e.val = v

\* The keys some get is computing: the rule was invoked, put has not run.
Computing ==
  {stack[n].key : n \in {m \in 1..Len(stack) : stack[m].kind = "get" /\ stack[m].pc # "has"}}

\* The last step completed a top-level get of key k.
TopGet == ev.top.op = "get"

C2_StoredIsRuleValue == \A e \in cache : e.val = RuleValue(rule, e.key)

\* A key computed from nested requests is stored, after a remove or a clear.
C2_Witness ==
  /\ \E e \in cache : e.key.id >= 2 /\ rule # "square" /\ e.val >= 1
  /\ ev.type = "stored" /\ ev.key.id >= 2
  /\ \E k \in KeyRepr : invoked[k] = 0 /\ Present(cache, k)

\* C3: get(k) on a key that is present returns the value stored for k and
\* leaves the container as it was; the rule is invoked for absent keys only.
C3_HitLeavesAlone ==
  /\ ev.type = "hit" =>
       /\ Holds(ev.pre, ev.key, ev.vals[1])
       /\ Len(ev.vals) = 1
       /\ cache = ev.pre
  /\ ev.type = "invoke" => ~Present(ev.pre, ev.key)
  /\ (TopGet /\ Present(ev.top.pre, ev.top.keys[1])) =>
       /\ ev.top.inv = 0
       /\ cache = ev.top.pre
       /\ Holds(cache, ev.top.keys[1], ev.top.vals[1])

\* A top-level get of a present key has returned.
C3_Witness ==
  /\ TopGet /\ Present(ev.top.pre, ev.top.keys[1])
  /\ ev.type = "hit" /\ ev.vals[1] >= 1

\* C4: when get(k) is called with k absent and the rule returns, then as
\* get returns k is present and the value returned is the one stored under k.
C4_MissReturnsStored ==
  /\ ev.type \in {"stored", "kept"} =>
       /\ Len(ev.vals) = 1
       /\ Holds(cache, ev.key, ev.vals[1])
  /\ (TopGet /\ ~Present(ev.top.pre, ev.top.keys[1])) =>
       /\ ev.type \in {"stored", "kept"}
       /\ ev.top.inv >= 1
       /\ Holds(cache, ev.top.keys[1], ev.top.vals[1])

\* A top-level get of an absent key has returned the value it stored.
C4_Witness ==
  /\ TopGet /\ ~Present(ev.top.pre, ev.top.keys[1])
  /\ ev.type = "stored" /\ ev.top.inv >= 2

\* C5: the second of two consecutive calls get(k) returns the value the
\* first returned, does not invoke the rule and leaves the length unchanged.
C5_Idempotent ==
  (TopGet /\ ev.top.again # <<>>) =>
    /\ ev.top.vals = ev.top.again
    /\ ev.top.inv = 0
    /\ ContainerLen(cache) = ContainerLen(ev.top.pre)

\* get(k) has returned twice in a row, the first time after computing k.
C5_Witness ==
  /\ TopGet /\ ev.top.again # <<>>
  /\ invoked[ev.top.keys[1]] = 1

\* C6 as stated: a new cache holds no key; get(k) on an absent key leaves
\* has(k) true and len() larger by exactly 1; get(k) on a present key
\* leaves len() unchanged.
C6_LenGrowsByOne ==
  /\ ev.type = "new" => cache = {}
  /\ TopGet =>
       /\ Present(cache, ev.top.keys[1])
       /\ ContainerLen(cache) =
            ContainerLen(ev.top.pre) + (IF Present(ev.top.pre, ev.top.keys[1]) THEN 0 ELSE 1)

\* C6 amended: a new cache holds no key; get(k) on an absent key leaves
\* has(k) true and len() larger by at least 1, by exactly 1 when the rule
\* was invoked for k alone; get(k) on a present key leaves len() unchanged.
C6_LenGrows ==
  /\ ev.type = "new" => cache = {}
  /\ TopGet =>
       /\ Present(cache, ev.top.keys[1])
       /\ IF Present(ev.top.pre, ev.top.keys[1])
          THEN ContainerLen(cache) = ContainerLen(ev.top.pre)
          ELSE /\ ContainerLen(cache) >= ContainerLen(ev.top.pre) + 1
               /\ ev.top.inv = 1 => ContainerLen(cache) = ContainerLen(ev.top.pre) + 1

\* get(k) on an absent key has returned with len() larger by more than 1.
C6_Witness ==
  /\ TopGet /\ ~Present(ev.top.pre, ev.top.keys[1])
  /\ ContainerLen(cache) > ContainerLen(ev.top.pre) + 1

\* C7: put(key, value) is insert-if-absent: on a present key it returns the
\* stored value and leaves the container unchanged; on an absent key it
\* stores value under key and returns it.
C7_InsertIfAbsent ==
  ev.type \in {"stored", "kept"} =>
    IF Present(ev.pre, ev.key)
    THEN /\ cache = ev.pre
         /\ Holds(ev.pre, ev.key, ev.vals[1])
    ELSE /\ cache = ev.pre \cup {[key |-> ev.key, val |-> ev.out[1]]}
         /\ ev.vals = ev.out

\* put has found the key present and kept a value other than the one passed.
C7_Witness ==
  /\ ev.type = "kept" /\ Present(ev.pre, ev.key)
  /\ ev.out # ev.vals

\* C8: when a nested call has stored a value under k while the rule was
\* computing k for an outer get(k), the outer get returns the value stored
\* first, its own output is not stored, and the entry is as it was.
C8_FirstWriterWins ==
  \A e \in ev.pre :
    (ev.type \in {"stored", "kept"} /\ e.key.id = ev.key.id) =>
      /\ ev.vals = <<e.val>>
      /\ e \in cache
      /\ \A x \in cache : x.key.id = ev.key.id => x = e
      /\ ev.type = "kept"

\* A top-level get(k) on an absent k has returned the value a nested call
\* stored, not its own output.
C8_Witness ==
  /\ TopGet /\ ~Present(ev.top.pre, ev.top.keys[1])
  /\ Present(ev.pre, ev.key) /\ ev.type = "kept"
  /\ ev.out # ev.top.vals
  /\ ~Holds(cache, ev.key, ev.out[1])

\* C9: a step of get or get_many, top-level or nested, leaves every entry of
\* the container in place with its value; only remove and clear take an
\* entry away.
C9_EntriesStay ==
  ev.type \notin {"remove", "clear"} =>
    \A e \in ev.pre : e \in cache /\ \A x \in cache : x.key.id = e.key.id => x = e

\* A get has run its put on a key that held a value, with another output.
C9_Witness ==
  /\ ev.type = "kept" /\ ev.out # ev.vals
  /\ stack # <<>>

\* C10: get_many([k1..kN]) returns at position i the value stored for ki and
\* leaves the container that get(k1); ...; get(kN) leave from the same start.
C10_ManyIsSequence ==
  ev.top.op = "get_many" =>
    /\ Len(ev.top.vals) = Len(ev.top.keys)
    /\ \A i \in 1..Len(ev.top.keys) : Holds(cache, ev.top.keys[i], ev.top.vals[i])
    /\ cache = BigSeq(rule, ev.top.pre, ev.top.keys)

\* get_many of two different keys, the first computed from the second, has
\* returned.
C10_Witness ==
  /\ ev.top.op = "get_many" /\ Len(ev.top.keys) = 2
  /\ ev.top.keys[1].id > ev.top.keys[2].id /\ ev.top.keys[2].id >= 1
  /\ ev.top.inv >= 3
  /\ rule # "square"

\* C11: get_many works through its keys from left to right: while it is at
\* position p, every entry the keys before p cause is stored, no entry is
\* stored that only a key after p causes, and the rule is invoked only for
\* keys that the keys before p left absent.
C11_LeftToRight ==
  (cur.op = "get_many" /\ stack # <<>> /\ stack[1].kind = "many") =>
    LET p == stack[1].i
        before == BigSeq(rule, cur.pre, SubSeq(cur.keys, 1, p - 1))
    IN /\ before \subseteq cache
       /\ p <= Len(cur.keys) =>
            cache \subseteq BigSeq(rule, cur.pre, SubSeq(cur.keys, 1, p))
       /\ p > Len(cur.keys) => cache = before
       /\ Len(stack) = 1 => cache = before
       /\ ev.type = "invoke" => ~Present(before, ev.key)

\* get_many is at its second key, the first one has caused nested entries,
\* and the rule is invoked for the second.
C11_Witness ==
  /\ cur.op = "get_many" /\ Len(cur.keys) = 2
  /\ stack # <<>> /\ stack[1].kind = "many" /\ stack[1].i = 2
  /\ ev.type = "invoke" /\ ev.key = cur.keys[2]
  /\ cur.keys[1].id >= 2 /\ cur.inv >= 4

\* The larger of two numbers.
Larger(a, b) == IF a >= b THEN a ELSE b

\* The largest index among keys ks (ks not empty).
LargestId(ks) ==
  CHOOSE m \in {ks[j].id : j \in 1..Len(ks)} : \A j \in 1..Len(ks) : ks[j].id <= m

\* C12: in a VecCache every index below len() holds the rule's value for it;
\* get(n) returns the rule's value for n and leaves
\* len() = max(previous len, n + 1), which is n + 1 on an empty cache; a get
\* of an index below len() does not invoke the rule and leaves the vector
\* as it was.
C12_GaplessFill ==
  /\ \A i \in 1..Len(cache) : cache[i] = RuleValue(rule, Key(i - 1, 0))
  /\ TopGet =>
       LET n == ev.top.keys[1].id
           before == ev.top.pre
       IN /\ Len(cache) = Larger(Len(before), n + 1)
          /\ before = <<>> => Len(cache) = n + 1
          /\ ev.top.vals = <<RuleValue(rule, ev.top.keys[1])>>
          /\ SubSeq(cache, 1, Len(before)) = before
          /\ n < Len(before) => (ev.top.inv = 0 /\ cache = before)

\* get(n) on an empty VecCache, with n >= 2 and a recursive rule, has
\* returned.
C12_Witness ==
  /\ TopGet /\ ev.top.pre = <<>>
  /\ ev.top.keys[1].id >= 2 /\ rule = "fib"
  /\ Len(cache) = ev.top.keys[1].id + 1
  /\ ev.top.vals[1] >= 1

C14_Remove ==
  ev.type = "remove" =>
    IF Present(ev.pre, ev.key)
    THEN /\ Len(ev.vals) = 1
         /\ Holds(ev.pre, ev.key, ev.vals[1])
         /\ ~Present(cache, ev.key)
         /\ Cardinality(cache) = Cardinality(ev.pre) - 1
         /\ cache \subseteq ev.pre
    ELSE /\ ev.vals = <<>>
         /\ cache = ev.pre

\* remove(k) has taken away an entry stored under the other spelling of k,
\* leaving another entry.
C14_Witness ==
  /\ ev.type = "remove" /\ ev.vals # <<>>
  /\ \E e \in ev.pre : e.key.id = ev.key.id /\ e.key # ev.key
  /\ cache # {}

\* C15: after clear() the container is empty: len() is 0 and no key is
\* present; the cache stays usable, and the get(k) that follows computes k
\* through the rule again, storing and returning the value k held before.
C15_ClearEmpties ==
  /\ ev.type = "clear" =>
       /\ Cardinality(cache) = 0
       /\ \A k \in KeyRepr : ~Present(cache, k)
       /\ stack = <<>>
  /\ (TopGet /\ ev.top.cleared # <<>>) =>
       /\ ev.top.inv >= 1
       /\ invoked[ev.top.keys[1]] = 1
       /\ Holds(cache, ev.top.keys[1], ev.top.vals[1])
       /\ \A e \in ev.top.cleared[1] :
            e.key.id = ev.top.keys[1].id => ev.top.vals = <<e.val>>

\* clear() has emptied a container that held k, and the get(k) after it has
\* returned, having computed k from nested requests.
C15_Witness ==
  /\ TopGet /\ ev.top.cleared # <<>>
  /\ Present(ev.top.cleared[1], ev.top.keys[1])
  /\ ev.top.inv >= 2

C17_NoRemovalInFlight ==
  /\ stack # <<>> =>
       /\ \A e \in cur.pre : e \in cache
       /\ \A e \in ev.pre : e \in cache
  /\ ev.top.op \in {"get", "get_many"} =>
       /\ \A e \in ev.top.pre : e \in cache
       /\ \A e \in ev.pre : e \in cache

\* The Fibonacci numbers.
RECURSIVE Fibonacci(_)
Fibonacci(n) == IF n < 2 THEN n ELSE Fibonacci(n - 1) + Fibonacci(n - 2)

\* C18: with the Fibonacci rule, get(n) returns fib(n); called on an empty
\* cache with n >= 2 it leaves every j in 0..n present, holding fib(j), the
\* nested calls having stored into the container of the outer call; a
\* repeated get(n) returns the same value and leaves len() unchanged.
C18_FibEndToEnd ==
  (TopGet /\ rule = "fib") =>
    LET n == ev.top.keys[1].id
    IN /\ ev.top.vals = <<Fibonacci(n)>>
       /\ (ev.top.pre = {} /\ n >= 2) =>
            /\ \A j \in 0..n : Holds(cache, Key(j, 0), Fibonacci(j))
            /\ Cardinality(cache) = n + 1
            /\ ev.top.inv = n + 1
       /\ ev.top.again # <<>> =>
            /\ ev.top.vals = ev.top.again
            /\ Cardinality(cache) = Cardinality(ev.top.pre)

\* With the Fibonacci rule get(n), n >= 3, has computed 0..n and a second
\* get(n) has returned.
C18_Witness ==
  /\ TopGet /\ rule = "fib"
  /\ ev.top.keys[1].id >= 3
  /\ ev.top.again = <<Fibonacci(ev.top.keys[1].id)>>
  /\ \A j \in 0..ev.top.keys[1].id : invoked[Key(j, 0)] = 1

\* C19: when the rule panics while computing key k, no entry exists
\* afterwards for k nor for any enclosing key whose computation was in
\* progress, and every entry stored before the panic, by the nested calls
\* that had completed as by earlier calls, is present with its value.
C19_FaultLeavesNoEntry ==
  /\ ev.type = "fault" =>
       /\ ev.key \in ev.unwound
       /\ \A k \in ev.unwound : ~Present(cache, k)
       /\ cache = ev.pre
       /\ \A e \in ev.top.pre : e \in cache
       /\ \A e \in cache : e.val = Fibonacci(e.key.id)
  /\ ev.type \notin {"clear", "new"} =>
       \A e \in ev.pre : e \in cache /\ \A x \in cache : x.key.id = e.key.id => x = e

\* The rule has panicked three calls deep, after a nested call had stored
\* its value.
C19_Witness ==
  /\ ev.type = "fault"
  /\ Cardinality(ev.unwound) >= 3
  /\ \E e \in cache : e \notin ev.top.pre

\* C20: a panic of the rule ends the top-level get or get_many without a
\* value: no frame of the cache is left, the rule was invoked once for the
\* key it panicked on, and nothing is stored in place of the value; the get
\* after it of a key whose computation does not reach the faulting key
\* returns the value of that key.
C20_FaultReachesCaller ==
  /\ ev.type = "fault" =>
       /\ stack = <<>> /\ cur = NoCall
       /\ ev.top.op \in {"get", "get_many"}
       /\ ev.top.vals = <<>>
       /\ ev.tries = 1
       /\ ev.top.inv = Cardinality(ev.unwound) + Cardinality(cache) - Cardinality(ev.top.pre)
       /\ cache = ev.pre
  /\ (TopGet /\ ev.type # "fault" /\ ev.top.faulted # <<>>) =>
       /\ ev.top.vals = <<Fibonacci(ev.top.keys[1].id)>>
       /\ Holds(cache, ev.top.keys[1], Fibonacci(ev.top.keys[1].id))
       /\ ~Present(cache, ev.top.faulted[1])

\* After a call the rule panicked in, a get has computed its key from
\* nested requests and returned.
C20_Witness ==
  /\ TopGet /\ ev.type = "stored"
  /\ ev.top.faulted # <<>>
  /\ ev.top.inv >= 3

\* The frames of the rule on the stack that compute a key other than 0.
CycleFrames == {n \in 1..Len(stack) : stack[n].kind = "rule" /\ stack[n].key.id # 0}

\* C21: with a rule whose keys 1 and 2 need each other, a get of a key that
\* needs the cycle never returns, to its caller or to the rule, and no
\* error result is reported: every invocation of the rule for such a key
\* is still on the stack, one frame deeper than the one before; no entry is
\* stored for a key on the cycle; the only end is the exhausted stack.
C21_CycleNeverReturns ==
  /\ \A e \in cache : e.key.id = 0
  /\ Cardinality(CycleFrames) =
       SumSeq([n \in 1..MaxKey |-> invoked[Key(n, 0)]])
  /\ ev.type \in {"hit", "stored", "kept", "output"} => ev.key.id = 0
  /\ ev.type # "fault"
  /\ ev.top.op = "get" => ev.top.keys[1].id = 0
  /\ ev.top.op = "get_many" => \A i \in 1..Len(ev.top.keys) : ev.top.keys[i].id = 0
  /\ ev.type = "abort" => Len(stack) >= MaxDepth

\* The rule has been invoked twice for a key that is still being computed,
\* and the stack is exhausted.
C21_Witness ==
  /\ ev.type = "abort"
  /\ \E k \in KeyRepr : invoked[k] >= 2
  /\ Present(cache, Key(0, 0))

\* The threads that are inside a call of the cache.
Inside == {t \in Threads : stack[t] # <<>>}

\* C22: with the cache behind a mutex, at most one thread is inside the
\* cache at any time and it is the holder of the mutex, each key is computed
\* at most once in total, and the get(k) of every thread returns the rule's
\* value for k.
C22_MutexSerializes ==
  /\ Cardinality(Inside) <= 1
  /\ \A t \in Inside : cur.holder = t
  /\ \A t \in Threads : cur.th[t].pc \in {"locked", "in", "got"} => cur.holder = t
  /\ \A k \in KeyRepr : invoked[k] <= 1
  /\ \A t \in Threads :
       cur.th[t].pc = "got" =>
         /\ cur.th[t].vals = <<RuleValue(rule, cur.th[t].key)>>
         /\ Holds(cache, cur.th[t].key, cur.th[t].vals[1])

\* A thread has got the value of a key another thread had computed, while
\* that thread is blocked in lock() for yet another key.
C22_Witness ==
  /\ rule = "fib"
  /\ cur.th[1].pc = "got" /\ cur.th[1].key.id >= 2
  /\ ev.type = "hit" /\ ev.thread = 1
  /\ cur.th[2].pc = "want"
  /\ \A k \in Keys(rule) : Present(cache, k) => invoked[k] = 1

\* C23: reserve(additional) leaves room for at least additional more
\* entries, capacity >= len() + additional, while len(), the stored keys and
\* the stored values are what they were and no rule has been invoked.
C23_ReserveIsAHint ==
  ev.type = "reserve" =>
    /\ cache.cap >= ContainerLen(cache.map) + ev.vals[1]
    /\ ContainerLen(cache.map) = ContainerLen(ev.pre.map)
    /\ cache.map = ev.pre.map
    /\ invoked = ev.inv

\* reserve has grown a map that holds entries.
C23_Witness ==
  /\ ev.type = "reserve"
  /\ ev.vals[1] > 0
  /\ cache.map # {}
  /\ cache.cap > ev.pre.cap
  /\ \E k \in KeyRepr : invoked[k] > 0

\* The rule invocations in progress.
RuleFrames == {n \in 1..Len(stack) : stack[n].kind = "rule"}

\* The gets that have called the rule and not yet appended its value.
Filling == {n \in 1..Len(stack) : stack[n].kind = "get" /\ stack[n].pc \in {"call", "put"}}

\* C24: a VecCache is filled in index order: whenever the rule runs for an
\* index n, n is len(), so that every index below n is stored, n itself is
\* not, and no other invocation is in progress; the value the rule returns
\* for n is appended at n before the next index is computed; each index is
\* computed exactly once, and a get(k) with len() <= k has invoked the rule
\* for the k - len() + 1 indices len(), ..., k.
C24_FillOrder ==
  /\ Cardinality(RuleFrames) <= 1
  /\ \A n \in RuleFrames : stack[n].key.id = Len(cache)
  /\ ev.type = "invoke" => (ev.key.id = Len(cache) /\ ev.key.id <= MaxKey)
  /\ ev.type = "push" =>
       /\ ev.key.id = Len(cache) - 1
       /\ cache[Len(cache)] = RuleValue(rule, ev.key)
       /\ RuleFrames = {}
  /\ \A k \in KeyRepr :
       invoked[k] = IF k.tag = 0 /\ (k.id < Len(cache) \/ (k.id = Len(cache) /\ Filling # {}))
                    THEN 1 ELSE 0
  /\ Cardinality(Filling) <= 1
  /\ (TopGet /\ Len(ev.top.pre) <= ev.top.keys[1].id) =>
       /\ ev.top.inv = ev.top.keys[1].id - Len(ev.top.pre) + 1
       /\ Len(cache) = ev.top.keys[1].id + 1

\* The rule runs for an index above 0 in a get that has already appended a
\* value, every index below being stored.
C24_Witness ==
  /\ ev.type = "invoke" /\ ev.key.id >= 2
  /\ cur.op = "get" /\ cur.inv >= 2 /\ Len(cur.pre) >= 1
  /\ Len(cache) = ev.key.id

\* The gets that get_many has called for a key that occurs earlier in its
\* input.
RepeatedGets ==
  {n \in 2..Len(stack) :
     /\ stack[n].kind = "get" /\ stack[n - 1].kind = "many"
     /\ \E j \in 1..(stack[n - 1].i - 1) : KeyEq(stack[n - 1].keys[j], stack[n].key)}

\* C25: the get that get_many performs for a key that occurs earlier in its
\* input finds the key stored and does not invoke the rule; the call
\* invokes the rule once for every entry it adds, at most once for any key,
\* and returns the same value at all positions that hold equal keys.
C25_RepeatedKeyIsAHit ==
  /\ \A n \in RepeatedGets : stack[n].pc = "has" /\ Has(cache, stack[n].key)
  /\ ev.type = "hit" => cache = ev.pre
  /\ ev.top.op = "get_many" =>
       /\ \A i, j \in 1..Len(ev.top.keys) :
            KeyEq(ev.top.keys[i], ev.top.keys[j]) => ev.top.vals[i] = ev.top.vals[j]
       /\ \A i \in 1..Len(ev.top.keys) : invoked[ev.top.keys[i]] <= 1
       /\ ev.top.inv = ContainerLen(cache) - ContainerLen(ev.top.pre)

\* get_many of the same absent key twice has returned after one invocation
\* of the rule.
C25_Witness ==
  /\ ev.top.op = "get_many" /\ Len(ev.top.keys) = 2
  /\ KeyEq(ev.top.keys[1], ev.top.keys[2])
  /\ ~Present(ev.top.pre, ev.top.keys[1])
  /\ invoked[ev.top.keys[1]] = 1
  /\ ev.top.vals[1] = ev.top.vals[2]
  /\ rule = "square" => ev.top.inv = 1

\* The get_many calls in progress, top-level and nested.
ManyFrames == {n \in 1..Len(stack) : stack[n].kind = "many"}

\* C26: get_many builds its result only once its loop of gets is over: the
\* keys the loop has been through are stored from then on, so that when the
\* result is built every key of the input is found, the unwrap never meets
\* None and the result holds the stored value of each key, whatever the
\* input array and the entries the call started from.
C26_SecondPassFinds ==
  /\ ev.type # "unwrap_none"
  /\ \A n \in ManyFrames :
       /\ stack[n].i <= Len(stack[n].keys) + 1
       /\ \A j \in 1..(stack[n].i - 1) : Has(cache, stack[n].keys[j])
       /\ n < Len(stack) => stack[n].i <= Len(stack[n].keys)
  /\ ev.type = "collect" => cache = ev.pre
  /\ ev.top.op = "get_many" =>
       /\ ev.type = "collect"
       /\ Len(ev.top.vals) = Len(ev.top.keys)
       /\ \A i \in 1..Len(ev.top.keys) :
            Has(cache, ev.top.keys[i]) /\ ev.top.vals[i] = Lookup(cache, ev.top.keys[i])

\* get_many of two different keys, one stored before the call and one not,
\* has built its result from a container that held other entries too.
C26_Witness ==
  /\ ev.top.op = "get_many" /\ Len(ev.top.keys) = 2
  /\ ev.top.keys[1].id # ev.top.keys[2].id
  /\ ~Present(ev.top.pre, ev.top.keys[1])
  /\ Present(ev.top.pre, ev.top.keys[2])
  /\ ev.top.vals[1] # ev.top.vals[2]
  /\ ContainerLen(cache) > 2

\* C27: with a Simple rule (square, wrapped as a rule that makes no request
\* through its handle) a get(k) of an absent key invokes the rule once, for
\* k, with no other call in between, returns f(k) and leaves the container
\* it found with exactly the entry k -> f(k) added.
C27_SimpleRule ==
  rule = "square" =>
    /\ \A n \in 1..Len(stack) :
         stack[n].kind = "rule" => (n = Len(stack) /\ stack[n].pos = 1 /\ stack[n].acc = <<>>)
    /\ ev.type # "request"
    /\ (TopGet /\ ~Present(ev.top.pre, ev.top.keys[1])) =>
         LET k == ev.top.keys[1]
         IN /\ ev.top.inv = 1
            /\ invoked[k] = 1
            /\ ev.top.vals = <<k.id * k.id>>
            /\ \E e \in cache :
                 /\ e.key = k /\ e.val = k.id * k.id
                 /\ cache = ev.top.pre \cup {e}
            /\ ContainerLen(cache) = ContainerLen(ev.top.pre) + 1

\* get(k) with the Simple rule has added k to a container that does not
\* hold the keys below k.
C27_Witness ==
  /\ rule = "square" /\ TopGet
  /\ ev.top.keys[1].id >= 2
  /\ ~Present(ev.top.pre, ev.top.keys[1])
  /\ ev.top.pre # {}
  /\ ~Present(cache, Key(ev.top.keys[1].id - 1, 0))
  /\ Holds(cache, ev.top.keys[1], ev.top.keys[1].id * ev.top.keys[1].id)

Contract(r, c, ks, many) ==
  IF many
  THEN [vals |-> ManyResult(BigSeq(r, c, ks), ks), post |-> BigSeq(r, c, ks),
        order |-> OrderSeq(r, c, ks)]
  ELSE [vals |-> BigGet(r, c, ks[1]).vals, post |-> BigGet(r, c, ks[1]).cache,
        order |-> OrderGet(r, c, ks[1])]

\* C29: a get or get_many returns the same values, has invoked the rule for
\* the same keys in the same order and leaves the same container, all of
\* them functions of the keys and of the container the call started from,
\* whether it was called on the cache or through the handle inside a rule.
C29_HandleSameContract ==
  ev.type = "return" =>
    /\ ev.via \in {"GenericCache", "RefCache"}
    /\ ev.vals = Contract(rule, ev.pre, ev.keys, ev.many).vals
    /\ ev.post = Contract(rule, ev.pre, ev.keys, ev.many).post
    /\ ev.order = Contract(rule, ev.pre, ev.keys, ev.many).order
    /\ cache = ev.post

\* A get through the handle has returned after invoking the rule for two
\* keys or more, having started from a container that held an entry.
C29_Witness ==
  /\ ev.type = "return" /\ ev.via = "RefCache" /\ ~ev.many
  /\ ev.pre # {}
  /\ Len(ev.order) >= 2
  /\ ev.post # ev.pre

\* C30: after every get, remove and clear made on HashCache, BTreeCache,
\* RawCache and GenericCache alike, with the same rule and from empty, the
\* four have returned the same values, hold the same entries and have
\* invoked the rule for the same keys in the same order; the BTreeMap is in
\* key order and a get returns the value stored under its key.
C30_SparseAlike ==
  /\ \A w1, w2 \in Sparse :
       /\ ev.vals[w1] = ev.vals[w2]
       /\ ev.order[w1] = ev.order[w2]
       /\ SparseEntries(w1, cache[w1]) = SparseEntries(w2, cache[w2])
  /\ \A i, j \in 1..Len(cache["BTreeCache"]) :
       i < j => cache["BTreeCache"][i].key.id < cache["BTreeCache"][j].key.id
  /\ ev.type = "get" =>
       \A w \in Sparse :
         /\ Len(ev.vals[w]) = 1
         /\ Holds(SparseEntries(w, cache[w]), ev.key, ev.vals[w][1])

\* A get has invoked the rule for several keys, not in key order, and
\* stored them next to an entry that a remove had left.
C30_Witness ==
  /\ ev.type = "get"
  /\ Len(ev.order["BTreeCache"]) >= 2
  /\ ev.order["BTreeCache"][1].id > ev.order["BTreeCache"][2].id
  /\ Len(cache["BTreeCache"]) > Len(ev.order["BTreeCache"])
  /\ Cardinality(cache["HashCache"]) = Len(cache["BTreeCache"])

RECURSIVE Reach(_, _)
\* The keys the computation of k asks for, directly or through another key.
Reach(r, k) ==
  LET rqs == Requests(r, k)
      direct == UNION {{rqs[p].keys[j] : j \in 1..Len(rqs[p].keys)} : p \in 1..Len(rqs)}
  IN direct \cup UNION {Reach(r, d) : d \in direct}

\* The keys the rule asks its handle for when it computes k.
Direct(r, k) ==
  LET rqs == Requests(r, k)
  IN UNION {{rqs[p].keys[j] : j \in 1..Len(rqs[p].keys)} : p \in 1..Len(rqs)}

\* The keys a get of k from container c asks for, in the rule for k and in
\* the rules that run below it.
Requested(r, c, k) ==
  LET order == OrderGet(r, c, k)
  IN UNION {Direct(r, order[n]) : n \in 1..Len(order)}

\* A top-level get of k has returned with k and every key its computation
\* has asked for stored; from an empty container these are all the keys k
\* depends on.
Returned31(k) ==
  /\ TopGet /\ ev.top.keys = <<k>>
  /\ Present(cache, k)
  /\ \A d \in Requested(rule, ev.top.pre, k) : Present(cache, d)
  /\ ev.top.pre = {} => \A d \in Reach(rule, k) : Present(cache, d)

\* C31: with a rule whose dependencies are finite and acyclic (fib), every
\* get(k) that is called returns, and whenever a get(k) has returned every
\* key the computation of k asks for, directly or transitively, is stored.
C31_GetReturns ==
  /\ [](TopGet => Returned31(ev.top.keys[1]))
  /\ \A k \in {x \in KeyRepr : x.tag = 0} :
       (cur.op = "get" /\ cur.keys = <<k>>) ~> Returned31(k)

\* A get of a key with transitive dependencies has returned after computing
\* some of them anew, others having been left by earlier calls.
C31_Witness ==
  /\ TopGet /\ ev.top.keys[1].id = MaxKey
  /\ ev.top.inv >= 2
  /\ ev.top.pre # {}
  /\ Reach(rule, ev.top.keys[1]) = {k \in KeyRepr : k.tag = 0 /\ k.id < MaxKey}
  /\ Cardinality(Requested(rule, ev.top.pre, ev.top.keys[1])) >= 2

\* C32: a get(k) that returns can find k stored at its insertion step: this
\* happens, and only when a nested call has stored the key under its other
\* spelling while the rule for k was running; the rule has then run for both
\* spellings, the entry of the nested call stays as it is and its value is
\* the one returned.
C32_CollidingBranches ==
  ev.type = "kept" =>
    /\ \E e \in ev.pre :
         /\ KeyEq(e.key, ev.key) /\ e.key # ev.key
         /\ invoked[e.key] >= 1
         /\ ev.vals = <<e.val>>
    /\ invoked[ev.key] >= 1
    /\ cache = ev.pre
    /\ (TopGet /\ invoked[ev.key] = 1) => ~Present(ev.top.pre, ev.key)

\* A top-level get has returned having found, at its insertion step, the
\* entry a nested call had stored, and has dropped its own output.
C32_Witness ==
  /\ ev.type = "kept" /\ TopGet
  /\ ~Present(ev.top.pre, ev.key)
  /\ ev.top.inv >= 2
  /\ ev.out # ev.vals
  /\ Present(cache, ev.key)

\* The index a reserve step was for: the input of get, the largest input of
\* get_many.
ReservedFor == IF ev.key # NoKey THEN ev.key.id ELSE MaxId(Top.keys)

\* C33: VecCache get(k) with len() <= k asks reserve for exactly
\* k - len() + 1 additional entries (get_many: for max(keys) - len() + 1),
\* which is at least 1 and is computed without overflow of the index type
\* for every k of the type; with len() > k it asks for nothing.
C33_ReserveAmount ==
  /\ ev.type # "overflow"
  /\ ev.type = "reserve" =>
       IF Len(ev.pre) <= ReservedFor
       THEN /\ ev.vals = <<ReservedFor - Len(ev.pre) + 1>>
            /\ ev.vals[1] >= 1
            /\ ev.vals[1] <= WordMax
       ELSE ev.vals = <<>>

\* C34: when the rule panics while a VecCache call is filling index j, the
\* vector is left with len() = j: the values below j are the ones stored
\* before the panic, those the call found first among them, and nothing is
\* stored for j or above; a get of an index below j that follows is a hit
\* that returns the stored value, invokes no rule and changes nothing.
C34_VecFaultStopsFill ==
  /\ ev.type = "fault" =>
       /\ Len(cache) = ev.key.id
       /\ cache = ev.pre
       /\ Len(ev.top.pre) <= ev.key.id
       /\ SubSeq(cache, 1, Len(ev.top.pre)) = ev.top.pre
       /\ ev.top.op = "get" => ev.key.id <= ev.top.keys[1].id
       /\ \A i \in 1..Len(cache) : cache[i] = RuleValue(rule, Key(i - 1, 0))
  /\ (TopGet /\ ev.top.faulted # <<>> /\ ev.top.keys[1].id < ev.top.faulted[1].id) =>
       /\ ev.top.inv = 0
       /\ cache = ev.top.pre
       /\ ev.top.vals = <<cache[ev.top.keys[1].id + 1]>>
       /\ Len(cache) = ev.top.faulted[1].id

\* After a panic at an index above 0 that left values behind, a get of a
\* lower index has returned.
C34_Witness ==
  /\ TopGet /\ ev.top.faulted # <<>>
  /\ ev.top.faulted[1].id >= 2
  /\ ev.top.keys[1].id < ev.top.faulted[1].id
  /\ Len(cache) = ev.top.faulted[1].id
  /\ ev.top.vals[1] >= 1

\* Key k was in the container the cache was built over: it is stored and
\* the rule has not been invoked for it (no entry is ever taken away here).
PreInitialized(k) == Present(cache, k) /\ invoked[k] = 0

\* C35: a get of a key that the container held when the cache was built is
\* a hit: it returns the value found there, whether or not it is the value
\* of the rule, invokes no rule and changes nothing; the rule is never
\* invoked for such a key, in any call, top-level or nested.
C35_PreInitializedHit ==
  /\ [](/\ \A k \in KeyRepr : invoked[k] <= 1
        /\ (TopGet /\ Present(ev.top.pre, ev.top.keys[1])) =>
             /\ ev.top.inv = 0
             /\ cache = ev.top.pre
             /\ Holds(cache, ev.top.keys[1], ev.top.vals[1])
        /\ (ev.type = "hit" /\ invoked[ev.key] = 0) =>
             /\ cache = ev.pre
             /\ Holds(ev.pre, ev.key, ev.vals[1]))
  /\ [][\A k \in KeyRepr :
          PreInitialized(k) => (invoked'[k] = 0 /\ \A e \in cache : e.key = k => e \in cache')]_vars

\* A get of a key has returned the value the container was built with,
\* which is not the value of the rule, after another key was computed from
\* such a value.
C35_Witness ==
  /\ TopGet /\ PreInitialized(ev.top.keys[1])
  /\ ev.top.vals # <<RuleValue(rule, ev.top.keys[1])>>
  /\ ev.top.inv = 0
  /\ \E k \in KeyRepr : invoked[k] = 1 /\ ~Holds(cache, k, RuleValue(rule, k))

\* C36: in a VecCache, when the rule returns the value for an index the
\* vector's length is that index, and the push that follows stores the
\* value there and nowhere else; so the element at every position i below
\* len() is the value of the rule for i, after a clear and a refill too.
C36_StoredAtItsIndex ==
  /\ ev.type = "output" =>
       /\ Len(cache) = ev.key.id
       /\ ev.out = <<RuleValue(rule, ev.key)>>
       /\ TopIs("get") /\ Top.pc = "put" /\ Top.out = ev.out[1]
  /\ ev.type = "push" =>
       /\ Len(ev.pre) = ev.key.id
       /\ cache = Append(ev.pre, ev.out[1])
       /\ VecAt(cache, ev.key.id) = <<RuleValue(rule, ev.key)>>
  /\ \A i \in 0..(Len(cache) - 1) : VecAt(cache, i) = <<RuleValue(rule, Key(i, 0))>>
  /\ \A i \in Len(cache)..MaxKey : VecAt(cache, i) = <<>>

\* A value that differs from its neighbour has been pushed at the last
\* index, by a get called after a clear.
C36_Witness ==
  /\ ev.type = "push" /\ ev.key.id = MaxKey
  /\ cache[MaxKey + 1] # cache[MaxKey]
  /\ cur.cleared # <<>>

\* The invocations in progress of the rule for an index that asks for a
\* higher one.
AheadFrames ==
  {n \in 1..Len(stack) :
     stack[n].kind = "rule" /\ \E d \in Direct(rule, stack[n].key) : d.id >= stack[n].key.id}

\* C37: in a VecCache whose rule for index 1 asks for index 2 (no cycle:
\* on a sparse cache get(1) returns), no invocation of the rule for index
\* 1 ever returns: the nested get(2) starts its fill at len() = 1 and
\* invokes the rule for 1 again, until the stack is exhausted.  Index 1 is
\* never stored, and the only gets and get_manys that return are those of
\* index 0, whose rule asks for nothing.
C37_AheadNeverReturns ==
  /\ RuleValue(rule, Key(1, 0)) = 3
  /\ Len(cache) <= 1
  /\ \A n \in RuleFrames : stack[n].key.id = Len(cache)
  /\ Cardinality(AheadFrames) = invoked[Key(1, 0)]
  /\ ev.type = "output" => Direct(rule, ev.key) = {}
  /\ TopGet => ev.top.keys[1].id = 0
  /\ ev.top.op = "get_many" => \A i \in 1..Len(ev.top.keys) : ev.top.keys[i].id = 0
  /\ ev.type = "abort" => (Len(stack) >= MaxDepth /\ ev.key.id = 1)

\* The stack is exhausted by invocations of the rule for index 1, index 0
\* being stored.
C37_Witness ==
  /\ ev.type = "abort"
  /\ invoked[Key(1, 0)] >= 3
  /\ Len(cache) = 1
  /\ cur.op = "get" /\ cur.keys[1].id = MaxKey

\* C38: the function object of a BTreeCache is released once, when the
\* cache is dropped, and never while an invocation of it is in progress,
\* whatever the rule does with the cache it is handed; nothing runs a
\* released function object.
C38_ReleasedWhenIdle ==
  /\ \A id \in FnId : cache.released[id] <= 1
  /\ cache.released[cache.fn] = 1 <=> cache.dropped
  /\ \A n \in 1..Len(stack) : stack[n].kind = "rule" => cache.released[stack[n].fn] = 0
  /\ ev.type # "crash"

\* C39: remove(k) leaves every other key with its presence and its value;
\* the get(k) that follows invokes the rule for k again, once, stores and
\* returns the value that was removed, keeps every entry that was there, and
\* invokes the rule for no key that was still present.
C39_RemoveOnlyK ==
  /\ ev.type = "remove" =>
       {e \in cache : ~KeyEq(e.key, ev.key)} = {e \in ev.pre : ~KeyEq(e.key, ev.key)}
  /\ (TopGet /\ ev.top.removed # <<>>) =>
       /\ invoked[ev.top.keys[1]] = 1
       /\ ev.top.removed[1].vals # <<>> =>
            /\ ev.top.vals = ev.top.removed[1].vals
            /\ Holds(cache, ev.top.keys[1], ev.top.removed[1].vals[1])
       /\ ev.top.pre \subseteq cache
       /\ \A j \in KeyRepr : Present(ev.top.pre, j) => invoked[j] = 0
       /\ \A j \in KeyRepr :
            (Present(ev.top.removed[1].pre, j) /\ ~KeyEq(j, ev.top.keys[1])) =>
              \E v \in {e.val : e \in cache} :
                Holds(cache, j, v) /\ Holds(ev.top.removed[1].pre, j, v)

\* remove(2) has taken 2 away from a container that holds 0, 1 and 3, and
\* the get(2) after it has returned, having invoked the rule once.
C39_Witness ==
  /\ TopGet /\ ev.top.removed # <<>>
  /\ ev.top.removed[1].vals # <<>>
  /\ ev.top.keys[1].id = 2
  /\ Cardinality(ev.top.pre) = 3
  /\ ev.top.inv = 1
  /\ rule = "fib"

====
